---- MODULE Spec2Model ----
(***************************************************************************)
(* A model of RazerDevice (daemon/openrazer_daemon/hardware/device_base.py) *)
(* as a state machine: the zone/effect state of one device, its load from   *)
(* the persistence store, the effect restoration dispatch, suspend/resume,  *)
(* close, and the observer bus.                                             *)
(*                                                                         *)
(* Python strings are sequences of one-character strings, so that the name  *)
(* composition and the text conversions (int, float, getboolean, split)     *)
(* are computed character by character as the code computes them.           *)
(***************************************************************************)
EXTENDS Integers, Sequences, FiniteSets, TLC

--------------------------------------------------------------------------
(* Characters and the str methods the code uses. *)

LowerChars ==
    << "a", "b", "c", "d", "e", "f", "g", "h", "i", "j", "k", "l", "m",
       "n", "o", "p", "q", "r", "s", "t", "u", "v", "w", "x", "y", "z" >>

UpperChars ==
    << "A", "B", "C", "D", "E", "F", "G", "H", "I", "J", "K", "L", "M",
       "N", "O", "P", "Q", "R", "S", "T", "U", "V", "W", "X", "Y", "Z" >>

DigitChars == << "0", "1", "2", "3", "4", "5", "6", "7", "8", "9" >>

\* 1-based position of character c in seq, 0 when it does not occur
IndexIn(c, seq) ==
    IF \E i \in 1..Len(seq) : seq[i] = c
    THEN CHOOSE i \in 1..Len(seq) : seq[i] = c
    ELSE 0

IsLower(c) == IndexIn(c, LowerChars) > 0
IsUpper(c) == IndexIn(c, UpperChars) > 0
IsDigit(c) == IndexIn(c, DigitChars) > 0

\* str.upper() / str.lower() on one character
upper(c) == IF IsLower(c) THEN UpperChars[IndexIn(c, LowerChars)] ELSE c
lower(c) == IF IsUpper(c) THEN LowerChars[IndexIn(c, UpperChars)] ELSE c

lower_str(s) == [i \in 1..Len(s) |-> lower(s[i])]

RECURSIVE lstrip(_)
lstrip(s) == IF s # << >> /\ Head(s) = " " THEN lstrip(Tail(s)) ELSE s

RECURSIVE rstrip(_)
rstrip(s) ==
    IF s # << >> /\ s[Len(s)] = " " THEN rstrip(SubSeq(s, 1, Len(s) - 1)) ELSE s

\* str.strip()
strip(s) == rstrip(lstrip(s))

\* str.split(" "): cut at every single space; never returns an empty list
RECURSIVE split_from(_, _, _)
split_from(s, k, cur) ==
    IF k > Len(s) THEN << cur >>
    ELSE IF s[k] = " " THEN << cur >> \o split_from(s, k + 1, << >>)
    ELSE split_from(s, k + 1, Append(cur, s[k]))

split(s) == split_from(s, 1, << >>)

\* str.replace(' ', '_')
replace_space(s) == [i \in 1..Len(s) |-> IF s[i] = " " THEN "_" ELSE s[i]]

--------------------------------------------------------------------------
(* The conversions of the load: int(), float(), ConfigParser.getboolean(). *)
(* Each returns [ok, val]; ok = FALSE is Python's ValueError.               *)

RECURSIVE digits_value(_, _)
digits_value(ds, acc) ==
    IF ds = << >> THEN acc
    ELSE digits_value(Tail(ds), 10 * acc + (IndexIn(Head(ds), DigitChars) - 1))

\* digits, with single underscores allowed between two digits
IsDigitString(b) ==
    /\ b # << >>
    /\ IsDigit(b[1]) /\ IsDigit(b[Len(b)])
    /\ \A i \in 1..Len(b) : IsDigit(b[i]) \/ b[i] = "_"
    /\ \A i \in 1..(Len(b) - 1) : ~(b[i] = "_" /\ b[i + 1] = "_")

\* int(text): surrounding whitespace, one optional sign, decimal digits
int(text) ==
    LET t    == strip(text)
        sgn  == t # << >> /\ Head(t) \in {"+", "-"}
        body == IF sgn THEN Tail(t) ELSE t
        mag  == digits_value(SelectSeq(body, IsDigit), 0)
    IN  IF IsDigitString(body)
        THEN [ok |-> TRUE, val |-> IF sgn /\ Head(t) = "-" THEN 0 - mag ELSE mag]
        ELSE [ok |-> FALSE, val |-> 0]

\* A float is kept exactly as m / 10^e (no trailing zero in the fraction),
\* or as one of the two non-numbers float() accepts.
Num(n) == [kind |-> "num", m |-> n, e |-> 0]

RECURSIVE normalize(_, _)
normalize(m, e) ==
    IF e > 0 /\ m % 10 = 0 THEN normalize(m \div 10, e - 1)
    ELSE [kind |-> "num", m |-> m, e |-> e]

\* float(text): surrounding whitespace, one optional sign, then nan / inf /
\* infinity in any case, or digits with at most one decimal point
float(text) ==
    LET t    == strip(text)
        sgn  == t # << >> /\ Head(t) \in {"+", "-"}
        neg  == sgn /\ Head(t) = "-"
        body == IF sgn THEN Tail(t) ELSE t
        low  == lower_str(body)
        dot  == IndexIn(".", body)
        ip   == IF dot = 0 THEN body ELSE SubSeq(body, 1, dot - 1)
        fp   == IF dot = 0 THEN << >> ELSE SubSeq(body, dot + 1, Len(body))
        okn  == /\ ip \o fp # << >>
                /\ \A i \in 1..Len(ip) : IsDigit(ip[i])
                /\ \A i \in 1..Len(fp) : IsDigit(fp[i])
        mag  == digits_value(ip \o fp, 0)
    IN  IF low = << "n", "a", "n" >>
        THEN [ok |-> TRUE, val |-> [kind |-> "nan", m |-> 0, e |-> 0]]
        ELSE IF low \in { << "i", "n", "f" >>,
                          << "i", "n", "f", "i", "n", "i", "t", "y" >> }
        THEN [ok |-> TRUE,
              val |-> [kind |-> "inf", m |-> IF neg THEN 0 - 1 ELSE 1, e |-> 0]]
        ELSE IF okn
        THEN [ok |-> TRUE,
              val |-> normalize(IF neg THEN 0 - mag ELSE mag, Len(fp))]
        ELSE [ok |-> FALSE, val |-> Num(0)]

\* ConfigParser.BOOLEAN_STATES applied to value.lower()
getboolean(text) ==
    LET low == lower_str(text)
    IN  IF low \in { << "1" >>, << "y", "e", "s" >>, << "t", "r", "u", "e" >>,
                     << "o", "n" >> }
        THEN [ok |-> TRUE, val |-> TRUE]
        ELSE IF low \in { << "0" >>, << "n", "o" >>,
                          << "f", "a", "l", "s", "e" >>, << "o", "f", "f" >> }
        THEN [ok |-> TRUE, val |-> FALSE]
        ELSE [ok |-> FALSE, val |-> FALSE]

--------------------------------------------------------------------------
(* Name composition of the effect dispatch. *)

\* string[0].upper() + string[1:]; the caller raises IndexError on ""
capitalize_first_char(string) == << upper(string[1]) >> \o Tail(string)

\* re.sub(r'[_]+(?P<first>[a-z])', lambda m: m.group('first').upper(), string)
RECURSIVE underscores_end(_, _)
underscores_end(s, k) ==
    IF k <= Len(s) /\ s[k] = "_" THEN underscores_end(s, k + 1) ELSE k

RECURSIVE handle_underscores_from(_, _)
handle_underscores_from(s, k) ==
    IF k > Len(s) THEN << >>
    ELSE IF s[k] = "_"
    THEN LET j == underscores_end(s, k)
         IN  IF j <= Len(s) /\ IsLower(s[j])
             THEN << upper(s[j]) >> \o handle_underscores_from(s, j + 1)
             ELSE SubSeq(s, k, j - 1) \o handle_underscores_from(s, j)
    ELSE << s[k] >> \o handle_underscores_from(s, k + 1)

handle_underscores(string) == handle_underscores_from(string, 1)


\* "{0:04X}" and "{0:04d}": at least four digits, zero padded
HexChars == DigitChars \o << "A", "B", "C", "D", "E", "F" >>

RECURSIVE to_base(_, _)
to_base(n, base) ==
    IF n < base THEN << HexChars[n + 1] >>
    ELSE to_base(n \div base, base) \o << HexChars[(n % base) + 1] >>

RECURSIVE zero_pad(_, _)
zero_pad(s, width) == IF Len(s) >= width THEN s ELSE zero_pad(<< "0" >> \o s, width)

FieldWidth == 4

format_04X(n) == zero_pad(to_base(n, 16), FieldWidth)
format_04d(n) == zero_pad(to_base(n, 10), FieldWidth)

--------------------------------------------------------------------------
(* Class attributes of RazerDevice. *)

ZONES ==
    << "backlight", "logo", "scroll", "left", "right", "charging",
       "fast_charging", "fully_charged", "channel1", "channel2", "channel3",
       "channel4", "channel5", "channel6" >>

\* the characters of each zone identifier
ZoneChars(i) ==
    CASE i = "backlight"     -> << "b", "a", "c", "k", "l", "i", "g", "h", "t" >>
      [] i = "logo"          -> << "l", "o", "g", "o" >>
      [] i = "scroll"        -> << "s", "c", "r", "o", "l", "l" >>
      [] i = "left"          -> << "l", "e", "f", "t" >>
      [] i = "right"         -> << "r", "i", "g", "h", "t" >>
      [] i = "charging"      -> << "c", "h", "a", "r", "g", "i", "n", "g" >>
      [] i = "fast_charging" -> << "f", "a", "s", "t", "_", "c", "h", "a", "r", "g", "i", "n", "g" >>
      [] i = "fully_charged" -> << "f", "u", "l", "l", "y", "_", "c", "h", "a", "r", "g", "e", "d" >>
      [] i = "channel1"      -> << "c", "h", "a", "n", "n", "e", "l", "1" >>
      [] i = "channel2"      -> << "c", "h", "a", "n", "n", "e", "l", "2" >>
      [] i = "channel3"      -> << "c", "h", "a", "n", "n", "e", "l", "3" >>
      [] i = "channel4"      -> << "c", "h", "a", "n", "n", "e", "l", "4" >>
      [] i = "channel5"      -> << "c", "h", "a", "n", "n", "e", "l", "5" >>
      [] i = "channel6"      -> << "c", "h", "a", "n", "n", "e", "l", "6" >>

\* the zones that have an entry in effect_methods
EffectMethodZones ==
    { "backlight", "logo", "scroll", "left", "right", "charging",
      "fast_charging", "fully_charged" }

WAVE_DIRS == {1, 2}

DefaultColors == << 0, 255, 0, 0, 255, 255, 0, 0, 255 >>

spectrum == << "s", "p", "e", "c", "t", "r", "u", "m" >>

\* the record every zone starts with
DefaultZone ==
    [ present    |-> FALSE,
      active     |-> TRUE,
      brightness |-> Num(75),
      effect     |-> spectrum,
      colors     |-> DefaultColors,
      speed      |-> 1,
      wave_dir   |-> 1 ]

DefaultPollRates == << 125, 500, 1000 >>

\* the capability name 'set_' + i + suffix of METHODS
ZoneMethod(i, suffix) == << "set_", i, suffix >>

\* any other capability name of METHODS
Method(name) == << name >>

None == "None"
NoSerial == << >>

--------------------------------------------------------------------------
(* Device classes: the subclasses of RazerDevice a daemon instantiates.    *)
(* METHODS is the capability list; attrs are the callables load_methods    *)
(* binds to the object, found by getattr, each with the number of          *)
(* parameters inspect.signature reports.                                   *)

EffectAttr(z, e, n) == [kind |-> "effect", zone |-> z, effect |-> e, arity |-> n]
ValueAttr(k, z, n) == [kind |-> k, zone |-> z, effect |-> << >>, arity |-> n]

KeyboardAttrs ==
    (<< "s", "e", "t", "B", "r", "i", "g", "h", "t", "n", "e", "s", "s" >>         :> ValueAttr("brightness", "backlight", 1)) @@
    (<< "s", "e", "t", "S", "p", "e", "c", "t", "r", "u", "m" >>           :> EffectAttr("backlight", << "s", "p", "e", "c", "t", "r", "u", "m" >>, 0)) @@
    (<< "s", "e", "t", "N", "o", "n", "e" >>               :> EffectAttr("backlight", << "n", "o", "n", "e" >>, 0)) @@
    (<< "s", "e", "t", "W", "a", "v", "e" >>               :> EffectAttr("backlight", << "w", "a", "v", "e" >>, 1)) @@
    (<< "s", "e", "t", "W", "h", "e", "e", "l" >>              :> EffectAttr("backlight", << "w", "h", "e", "e", "l" >>, 1)) @@
    (<< "s", "e", "t", "S", "t", "a", "r", "l", "i", "g", "h", "t", "R", "a", "n", "d", "o", "m" >>    :> EffectAttr("backlight", << "s", "t", "a", "r", "l", "i", "g", "h", "t", "R", "a", "n", "d", "o", "m" >>, 1)) @@
    (<< "s", "e", "t", "R", "i", "p", "p", "l", "e", "R", "a", "n", "d", "o", "m", "C", "o", "l", "o", "u", "r" >> :> EffectAttr("backlight", << "r", "i", "p", "p", "l", "e", "R", "a", "n", "d", "o", "m", "C", "o", "l", "o", "u", "r" >>, 1)) @@
    (<< "s", "e", "t", "S", "t", "a", "t", "i", "c" >>             :> EffectAttr("backlight", << "s", "t", "a", "t", "i", "c" >>, 3)) @@
    (<< "s", "e", "t", "R", "e", "a", "c", "t", "i", "v", "e" >>           :> EffectAttr("backlight", << "r", "e", "a", "c", "t", "i", "v", "e" >>, 4)) @@
    (<< "s", "e", "t", "S", "t", "a", "r", "l", "i", "g", "h", "t", "S", "i", "n", "g", "l", "e" >>    :> EffectAttr("backlight", << "s", "t", "a", "r", "l", "i", "g", "h", "t", "S", "i", "n", "g", "l", "e" >>, 4)) @@
    (<< "s", "e", "t", "R", "i", "p", "p", "l", "e" >>             :> EffectAttr("backlight", << "r", "i", "p", "p", "l", "e" >>, 4)) @@
    (<< "s", "e", "t", "B", "r", "e", "a", "t", "h", "D", "u", "a", "l" >>         :> EffectAttr("backlight", << "b", "r", "e", "a", "t", "h", "D", "u", "a", "l" >>, 6)) @@
    (<< "s", "e", "t", "S", "t", "a", "r", "l", "i", "g", "h", "t", "D", "u", "a", "l" >>      :> EffectAttr("backlight", << "s", "t", "a", "r", "l", "i", "g", "h", "t", "D", "u", "a", "l" >>, 7)) @@
    (<< "s", "e", "t", "B", "r", "e", "a", "t", "h", "T", "r", "i", "p", "l", "e" >>       :> EffectAttr("backlight", << "b", "r", "e", "a", "t", "h", "T", "r", "i", "p", "l", "e" >>, 9))

MouseAttrs ==
    (<< "s", "e", "t", "L", "o", "g", "o", "A", "c", "t", "i", "v", "e" >>         :> ValueAttr("active", "logo", 1)) @@
    (<< "s", "e", "t", "L", "o", "g", "o", "B", "r", "i", "g", "h", "t", "n", "e", "s", "s" >>     :> ValueAttr("brightness", "logo", 1)) @@
    (<< "s", "e", "t", "L", "o", "g", "o", "S", "p", "e", "c", "t", "r", "u", "m" >>       :> EffectAttr("logo", << "s", "p", "e", "c", "t", "r", "u", "m" >>, 0)) @@
    (<< "s", "e", "t", "L", "o", "g", "o", "W", "a", "v", "e" >>           :> EffectAttr("logo", << "w", "a", "v", "e" >>, 1)) @@
    (<< "s", "e", "t", "L", "o", "g", "o", "S", "t", "a", "t", "i", "c" >>         :> EffectAttr("logo", << "s", "t", "a", "t", "i", "c" >>, 3)) @@
    (<< "s", "e", "t", "L", "o", "g", "o", "R", "e", "a", "c", "t", "i", "v", "e" >>       :> EffectAttr("logo", << "r", "e", "a", "c", "t", "i", "v", "e" >>, 4)) @@
    (<< "s", "e", "t", "S", "c", "r", "o", "l", "l", "A", "c", "t", "i", "v", "e" >>       :> ValueAttr("active", "scroll", 1)) @@
    (<< "s", "e", "t", "S", "c", "r", "o", "l", "l", "B", "r", "i", "g", "h", "t", "n", "e", "s", "s" >>   :> ValueAttr("brightness", "scroll", 1)) @@
    (<< "s", "e", "t", "S", "c", "r", "o", "l", "l", "S", "p", "e", "c", "t", "r", "u", "m" >>     :> EffectAttr("scroll", << "s", "p", "e", "c", "t", "r", "u", "m" >>, 0)) @@
    (<< "s", "e", "t", "S", "c", "r", "o", "l", "l", "B", "r", "e", "a", "t", "h", "D", "u", "a", "l" >>   :> EffectAttr("scroll", << "b", "r", "e", "a", "t", "h", "D", "u", "a", "l" >>, 6)) @@
    (<< "s", "e", "t", "D", "P", "I" >>                :> ValueAttr("dpi", "", 2)) @@
    (<< "g", "e", "t", "D", "P", "I" >>                :> ValueAttr("get_dpi", "", 0)) @@
    (<< "s", "e", "t", "P", "o", "l", "l", "R", "a", "t", "e" >>           :> ValueAttr("poll_rate", "", 1))

DockAttrs ==
    (<< "s", "e", "t", "F", "a", "s", "t", "C", "h", "a", "r", "g", "i", "n", "g", "S", "p", "e", "c", "t", "r", "u", "m" >> :> EffectAttr("fast_charging", << "s", "p", "e", "c", "t", "r", "u", "m" >>, 0)) @@
    (<< "s", "e", "t", "F", "a", "s", "t", "C", "h", "a", "r", "g", "i", "n", "g", "S", "t", "a", "t", "i", "c" >>   :> EffectAttr("fast_charging", << "s", "t", "a", "t", "i", "c" >>, 3)) @@
    (<< "s", "e", "t", "C", "h", "a", "r", "g", "i", "n", "g", "S", "p", "e", "c", "t", "r", "u", "m" >>     :> EffectAttr("charging", << "s", "p", "e", "c", "t", "r", "u", "m" >>, 0)) @@
    (<< "s", "e", "t", "C", "h", "a", "r", "g", "i", "n", "g", "W", "a", "v", "e" >>         :> EffectAttr("charging", << "w", "a", "v", "e" >>, 1))

LegacyAttrs ==
    (<< "s", "e", "t", "L", "o", "g", "o", "S", "t", "a", "t", "i", "c" >>         :> EffectAttr("logo", << "s", "t", "a", "t", "i", "c" >>, 3))

Keyboard ==
    [ name        |-> "Keyboard",
      USB_VID     |-> 5426,
      USB_PID     |-> 515,
      METHODS     |-> { Method("set_static_effect"), Method("set_wave_effect"),
                        Method("set_brightness") },
      attrs       |-> KeyboardAttrs,
      DRIVER_MODE |-> TRUE,
      DPI_MAX     |-> 0,
      POLL_RATES  |-> << >>,
      hooks       |-> FALSE ]

Mouse ==
    [ name        |-> "Mouse",
      USB_VID     |-> 5426,
      USB_PID     |-> 67,
      METHODS     |-> { Method("set_dpi_xy"), Method("get_dpi_xy"),
                        Method("set_poll_rate"),
                        ZoneMethod("logo", "_active"),
                        ZoneMethod("logo", "_brightness"),
                        ZoneMethod("logo", "_static"),
                        ZoneMethod("scroll", "_active"),
                        ZoneMethod("scroll", "_brightness") },
      attrs       |-> MouseAttrs,
      DRIVER_MODE |-> FALSE,
      DPI_MAX     |-> 16000,
      POLL_RATES  |-> << >>,
      hooks       |-> TRUE ]

Dock ==
    [ name        |-> "Dock",
      USB_VID     |-> 5426,
      USB_PID     |-> 126,
      METHODS     |-> { ZoneMethod("charging", "_static"),
                        ZoneMethod("fast_charging", "_static") },
      attrs       |-> DockAttrs,
      DRIVER_MODE |-> FALSE,
      DPI_MAX     |-> 0,
      POLL_RATES  |-> << >>,
      hooks       |-> FALSE ]

Legacy ==
    [ name        |-> "Legacy",
      USB_VID     |-> 5426,
      USB_PID     |-> 22,
      METHODS     |-> { ZoneMethod("logo", "_static") },
      attrs       |-> LegacyAttrs,
      DRIVER_MODE |-> FALSE,
      DPI_MAX     |-> 0,
      POLL_RATES  |-> << >>,
      hooks       |-> FALSE ]

DeviceClasses == { Keyboard, Mouse, Dock, Legacy }

\* a mouse whose lighting is one backlight zone
BacklitMouseAttrs ==
    (<< "s", "e", "t", "B", "r", "i", "g", "h", "t", "n", "e", "s", "s" >>         :> ValueAttr("brightness", "backlight", 1)) @@
    (<< "s", "e", "t", "S", "p", "e", "c", "t", "r", "u", "m" >>           :> EffectAttr("backlight", << "s", "p", "e", "c", "t", "r", "u", "m" >>, 0)) @@
    (<< "s", "e", "t", "W", "a", "v", "e" >>               :> EffectAttr("backlight", << "w", "a", "v", "e" >>, 1)) @@
    (<< "s", "e", "t", "S", "t", "a", "t", "i", "c" >>             :> EffectAttr("backlight", << "s", "t", "a", "t", "i", "c" >>, 3)) @@
    (<< "s", "e", "t", "L", "e", "d", "R", "o", "w" >>             :> ValueAttr("row", "", 4)) @@
    (<< "s", "e", "t", "D", "P", "I" >>                :> ValueAttr("dpi", "", 2)) @@
    (<< "g", "e", "t", "D", "P", "I" >>                :> ValueAttr("get_dpi", "", 0)) @@
    (<< "s", "e", "t", "P", "o", "l", "l", "R", "a", "t", "e" >>           :> ValueAttr("poll_rate", "", 1))

BacklitMouse ==
    [ name        |-> "BacklitMouse",
      USB_VID     |-> 5426,
      USB_PID     |-> 69,
      METHODS     |-> { Method("set_static_effect"), Method("set_wave_effect"),
                        Method("set_brightness"), Method("set_dpi_xy"),
                        Method("get_dpi_xy"), Method("set_poll_rate") },
      attrs       |-> BacklitMouseAttrs,
      DRIVER_MODE |-> FALSE,
      DPI_MAX     |-> 16000,
      POLL_RATES  |-> << >>,
      hooks       |-> FALSE ]

--------------------------------------------------------------------------
(* State. *)

VARIABLES
    cls,                    \* the device class being instantiated
    config,                 \* the [Startup] flags of the daemon configuration
    phase,                  \* "new", "active" (constructed) or "failed"
    self,                   \* the instance attributes of the RazerDevice
    persistence,            \* the persistence store and its status["changed"]
    device,                 \* the control files of the device directory
    unknown_serial_counter, \* the map shared by all devices of the daemon
    trace,                  \* what the last operation did to its collaborators
    op,                     \* the last operation and how it ended
    devices,                \* the devices the daemon has constructed so far
    resolving,              \* the get_serial calls running on other threads
    fanout                  \* devices observing one another, and a broadcast among them

vars ==
    << cls, config, phase, self, persistence, device, unknown_serial_counter,
       trace, op, devices, resolving, fanout >>

EmptyTrace ==
    [ calls     |-> << >>,   \* setters, hooks and control-file writes, in order
      delivered |-> << >>,   \* events handed to the parent and the observers
      errors    |-> << >>,   \* logger.error records
      reads     |-> 0 ]      \* reads of the device_serial file

\* The state an operation runs on: the variables, plus the exception (if any)
\* that is unwinding the call stack.
World ==
    [ self                   |-> self,
      persistence            |-> persistence,
      device                 |-> device,
      unknown_serial_counter |-> unknown_serial_counter,
      trace                  |-> EmptyTrace,
      exc                    |-> "none" ]

raise(w, e) == IF w.exc # "none" THEN w ELSE [w EXCEPT !.exc = e]

Commit(w, name, args) ==
    /\ self' = w.self
    /\ persistence' = w.persistence
    /\ device' = w.device
    /\ unknown_serial_counter' = w.unknown_serial_counter
    /\ trace' = w.trace
    /\ op' = [name |-> name, args |-> args, exc |-> w.exc]

--------------------------------------------------------------------------
(* The observer bus. *)

\* observer.notify(msg) of a registered observer
observer_notify(w, observer, msg) ==
    IF w.exc # "none" THEN w
    ELSE [w EXCEPT !.trace.delivered =
                       Append(@, [to |-> observer, via |-> "notify", msg |-> msg])]

RECURSIVE notify_from(_, _, _)
notify_from(w, msg, k) ==
    IF w.exc # "none" \/ k > Len(w.self._observer_list) THEN w
    ELSE notify_from(observer_notify(w, w.self._observer_list[k], msg), msg, k + 1)

\* notify_observers without the _disable_notifications test
notify_observers_unguarded(w, msg) ==
    IF w.exc # "none" THEN w
    ELSE LET up == w.self._effect_sync_propagate_up /\ w.self._parent # None
             w1 == IF up
                   THEN [w EXCEPT !.trace.delivered =
                            Append(@, [to |-> w.self._parent,
                                       via |-> "notify_parent", msg |-> msg])]
                   ELSE w
         IN  notify_from(w1, msg, 1)

notify_observers_parent_last(w, msg) ==
    IF w.exc # "none" \/ w.self._disable_notifications THEN w
    ELSE LET up == w.self._effect_sync_propagate_up /\ w.self._parent # None
             w1 == notify_from(w, msg, 1)
         IN  IF up /\ w1.exc = "none"
             THEN [w1 EXCEPT !.trace.delivered =
                      Append(@, [to |-> w.self._parent,
                                 via |-> "notify_parent", msg |-> msg])]
             ELSE w1

notify_observers(w, msg) ==
    IF w.exc # "none" \/ w.self._disable_notifications THEN w
    ELSE LET up == w.self._effect_sync_propagate_up /\ w.self._parent # None
             w1 == IF up
                   THEN [w EXCEPT !.trace.delivered =
                            Append(@, [to |-> w.self._parent,
                                       via |-> "notify_parent", msg |-> msg])]
                   ELSE w
         IN  notify_from(w1, msg, 1)

\* notify with the test and the parent of notify_observers
notify_as_broadcast(w, msg) == notify_observers(w, msg)

notify(w, msg) == notify_from(w, msg, 1)

\* payload = ['effect', self, effect_name]; payload.extend(args)
send_effect_event(w, effect_name, args) ==
    notify_observers(w, << "effect", effect_name >> \o args)

register_observer_always(w, observer) ==
    [w EXCEPT !.self._observer_list = Append(@, observer)]

register_observer(w, observer) ==
    IF \E k \in 1..Len(w.self._observer_list) : w.self._observer_list[k] = observer
    THEN w
    ELSE [w EXCEPT !.self._observer_list = Append(@, observer)]

register_parent(w, parent) == [w EXCEPT !.self._parent = parent]

\* list.remove: the first occurrence; ValueError is swallowed
remove_observer(w, observer) ==
    LET l == w.self._observer_list
        k == IndexIn(observer, l)
    IN  IF k = 0 THEN w
        ELSE [w EXCEPT !.self._observer_list =
                            SubSeq(l, 1, k - 1) \o SubSeq(l, k + 1, Len(l))]

--------------------------------------------------------------------------
(* Persistence of the zone state. *)

\* set_persistence without the _disable_persistence test
set_persistence_unguarded(w, zone, key, value) ==
    IF w.exc # "none" THEN w
    ELSE LET w1 == [w EXCEPT !.persistence.changed = TRUE]
         IN  IF zone # ""
             THEN IF zone \in DOMAIN w1.self.zone
                  THEN [w1 EXCEPT !.self.zone[zone] = (key :> value) @@ @]
                  ELSE raise(w1, "KeyError")
             ELSE [w1 EXCEPT !.self.zone = (key :> value) @@ @]

\* set_persistence without the write of status["changed"]
set_persistence_clean(w, zone, key, value) ==
    IF w.exc # "none" \/ w.self._disable_persistence THEN w
    ELSE IF zone # ""
         THEN IF zone \in DOMAIN w.self.zone
              THEN [w EXCEPT !.self.zone[zone] = (key :> value) @@ @]
              ELSE raise(w, "KeyError")
         ELSE [w EXCEPT !.self.zone = (key :> value) @@ @]

set_persistence(w, zone, key, value) ==
    IF w.exc # "none" \/ w.self._disable_persistence THEN w
    ELSE LET w1 == [w EXCEPT !.persistence.changed = TRUE]
         IN  IF zone # ""
             THEN IF zone \in DOMAIN w1.self.zone
                  THEN [w1 EXCEPT !.self.zone[zone] = (key :> value) @@ @]
                  ELSE raise(w1, "KeyError")
             ELSE [w1 EXCEPT !.self.zone = (key :> value) @@ @]

--------------------------------------------------------------------------
(* The callables bound by load_methods (dbus_methods): each writes its     *)
(* control file, mirrors the new value through set_persistence and         *)
(* broadcasts an effect event.                                             *)

\* getattr(self, name, None) is not None, and the attribute found
hasattr(name) == name \in DOMAIN cls.attrs
getattr(name) == cls.attrs[name]

get_num_arguments(func) == func.arity

record_call(w, name, args) ==
    [w EXCEPT !.trace.calls = Append(@, [name |-> name, args |-> args])]

call_setter(w, name, args) ==
    IF w.exc # "none" THEN w
    ELSE LET func == getattr(name)
             w1   == record_call(w, name, args)
         IN  CASE w.device.fault = "setter" -> raise(w1, "OSError")
               [] func.kind = "brightness" ->
                    send_effect_event(
                        set_persistence(w1, func.zone, "brightness", args[1]),
                        name, args)
               [] func.kind = "active" ->
                    send_effect_event(
                        set_persistence(w1, func.zone, "active", args[1]),
                        name, args)
               [] func.kind = "effect" ->
                    send_effect_event(
                        set_persistence(w1, func.zone, "effect", func.effect),
                        name, args)
               [] func.kind = "dpi" -> [w1 EXCEPT !.device.dpi = args]
               [] OTHER -> w1

\* the zones of ZONES flagged present, in ZONES order
present_zones(w) == SelectSeq(ZONES, LAMBDA i : w.self.zone[i].present)

\* the device-specific _suspend_device / _resume_device of a subclass
device_hook(w, name) ==
    IF w.exc # "none" THEN w
    ELSE LET w1 == record_call(w, name, << >>)
         IN  IF w.device.fault = "hook" THEN raise(w1, "OSError")
             ELSE IF cls.hooks /\ present_zones(w) # << >>
             THEN send_effect_event(
                      set_persistence(w1, present_zones(w)[1], "brightness", Num(0)),
                      name, << >>)
             ELSE w1

--------------------------------------------------------------------------
(* Brightness and active state. *)

\* "set" + capitalize_first_char(i) + suffix
ValueSetterName(i, suffix) ==
    << "s", "e", "t" >> \o capitalize_first_char(ZoneChars(i)) \o suffix

restore_brightness_zone(w, i) ==
    IF w.exc # "none" \/ ~w.self.zone[i].present THEN w
    ELSE LET an == ValueSetterName(i, << "A", "c", "t", "i", "v", "e" >>)
             w1 == IF ZoneMethod(i, "_active") \in cls.METHODS /\ hasattr(an)
                   THEN call_setter(w, an, << w.self.zone[i].active >>)
                   ELSE w
             bn == IF i = "backlight" THEN << "s", "e", "t", "B", "r", "i", "g", "h", "t", "n", "e", "s", "s" >>
                   ELSE ValueSetterName(i, << "B", "r", "i", "g", "h", "t", "n", "e", "s", "s" >>)
             bf == /\ i = "backlight" \/ ZoneMethod(i, "_brightness") \in cls.METHODS
                   /\ hasattr(bn)
         IN  IF bf
             THEN call_setter(w1, bn, << w1.self.zone[i].brightness >>)
             ELSE w1

\* for i in self.ZONES: if self.zone[i]["present"]: ...
RECURSIVE restore_brightness_from(_, _)
restore_brightness_from(w, zones) ==
    IF zones = << >> THEN w
    ELSE restore_brightness_from(restore_brightness_zone(w, Head(zones)), Tail(zones))

restore_brightness(w) == restore_brightness_from(w, present_zones(w))

disable_brightness_zone(w, i) ==
    IF w.exc # "none" \/ ~w.self.zone[i].present THEN w
    ELSE LET an == ValueSetterName(i, << "A", "c", "t", "i", "v", "e" >>)
             w1 == IF ZoneMethod(i, "_active") \in cls.METHODS /\ hasattr(an)
                   THEN call_setter(w, an, << FALSE >>)
                   ELSE w
             bn == IF i = "backlight" THEN << "s", "e", "t", "B", "r", "i", "g", "h", "t", "n", "e", "s", "s" >>
                   ELSE ValueSetterName(i, << "B", "r", "i", "g", "h", "t", "n", "e", "s", "s" >>)
             bf == /\ i = "backlight" \/ ZoneMethod(i, "_brightness") \in cls.METHODS
                   /\ hasattr(bn)
         IN  IF bf
             THEN call_setter(w1, bn, << Num(0) >>)
             ELSE w1

\* for i in self.ZONES: if self.zone[i]["present"]: ...
RECURSIVE disable_brightness_from(_, _)
disable_brightness_from(w, zones) ==
    IF zones = << >> THEN w
    ELSE disable_brightness_from(disable_brightness_zone(w, Head(zones)), Tail(zones))

disable_brightness(w) == disable_brightness_from(w, present_zones(w))

--------------------------------------------------------------------------
(* The effect dispatch. *)

log_error(w, what) == [w EXCEPT !.trace.errors = Append(@, what)]

\* the name restore_effect looks up first
effect_func_name(i, effect) ==
    IF i = "backlight"
    THEN << "s", "e", "t" >> \o capitalize_first_char(effect)
    ELSE << "s", "e", "t" >> \o handle_underscores(capitalize_first_char(ZoneChars(i)))
                \o capitalize_first_char(effect)

\* the name restore_effect looks up after resetting the effect to spectrum
spectrum_func_name(i) ==
    IF i = "backlight"
    THEN << "s", "e", "t", "S", "p", "e", "c", "t", "r", "u", "m" >>
    ELSE << "s", "e", "t" >> \o capitalize_first_char(ZoneChars(i)) \o << "S", "p", "e", "c", "t", "r", "u", "m" >>

\* the dispatch with speed and wave_dir exchanged for one parameter
dispatch_effect_swapped(w, i, name) ==
    LET effect   == w.self.zone[i].effect
        colors   == w.self.zone[i].colors
        speed    == w.self.zone[i].speed
        wave_dir == w.self.zone[i].wave_dir
        n        == get_num_arguments(getattr(name))
    IN  CASE n = 0 -> call_setter(w, name, << >>)
          [] n = 1 ->
                IF effect = << "s", "t", "a", "r", "l", "i", "g", "h", "t", "R", "a", "n", "d", "o", "m" >> THEN call_setter(w, name, << wave_dir >>)
                ELSE IF effect = << "w", "a", "v", "e" >> THEN call_setter(w, name, << speed >>)
                ELSE IF effect = << "w", "h", "e", "e", "l" >> THEN call_setter(w, name, << speed >>)
                ELSE IF effect = << "r", "i", "p", "p", "l", "e", "R", "a", "n", "d", "o", "m", "C", "o", "l", "o", "u", "r" >> THEN w
                ELSE log_error(w, "Effect requires 1 argument")
          [] n = 3 -> call_setter(w, name, SubSeq(colors, 1, 3))
          [] n = 4 ->
                IF effect = << "s", "t", "a", "r", "l", "i", "g", "h", "t", "S", "i", "n", "g", "l", "e" >> \/ effect = << "r", "e", "a", "c", "t", "i", "v", "e" >>
                THEN call_setter(w, name, SubSeq(colors, 1, 3) \o << speed >>)
                ELSE IF effect = << "r", "i", "p", "p", "l", "e" >> THEN w
                ELSE log_error(w, "Effect requires 4 arguments")
          [] n = 6 -> call_setter(w, name, SubSeq(colors, 1, 6))
          [] n = 7 -> call_setter(w, name, SubSeq(colors, 1, 6) \o << speed >>)
          [] n = 9 -> call_setter(w, name, SubSeq(colors, 1, 9))
          [] OTHER -> log_error(w, "Couldn't detect effect argument count")

\* the call of effect_func chosen by the number of its parameters
dispatch_effect_ripple(w, i, name) ==
    LET effect   == w.self.zone[i].effect
        colors   == w.self.zone[i].colors
        speed    == w.self.zone[i].speed
        wave_dir == w.self.zone[i].wave_dir
        n        == get_num_arguments(getattr(name))
    IN  CASE n = 0 -> call_setter(w, name, << >>)
          [] n = 1 ->
                IF effect = << "s", "t", "a", "r", "l", "i", "g", "h", "t", "R", "a", "n", "d", "o", "m" >> THEN call_setter(w, name, << speed >>)
                ELSE IF effect = << "w", "a", "v", "e" >> THEN call_setter(w, name, << wave_dir >>)
                ELSE IF effect = << "w", "h", "e", "e", "l" >> THEN call_setter(w, name, << wave_dir >>)
                ELSE IF effect = << "r", "i", "p", "p", "l", "e", "R", "a", "n", "d", "o", "m", "C", "o", "l", "o", "u", "r" >> THEN call_setter(w, name, << speed >>)
                ELSE log_error(w, "Effect requires 1 argument")
          [] n = 3 -> call_setter(w, name, SubSeq(colors, 1, 3))
          [] n = 4 ->
                IF effect = << "s", "t", "a", "r", "l", "i", "g", "h", "t", "S", "i", "n", "g", "l", "e" >> \/ effect = << "r", "e", "a", "c", "t", "i", "v", "e" >> \/ effect = << "r", "i", "p", "p", "l", "e" >>
                THEN call_setter(w, name, SubSeq(colors, 1, 3) \o << speed >>)
                ELSE log_error(w, "Effect requires 4 arguments")
          [] n = 6 -> call_setter(w, name, SubSeq(colors, 1, 6))
          [] n = 7 -> call_setter(w, name, SubSeq(colors, 1, 6) \o << speed >>)
          [] n = 9 -> call_setter(w, name, SubSeq(colors, 1, 9))
          [] OTHER -> log_error(w, "Couldn't detect effect argument count")

dispatch_effect_lenient(w, i, name) ==
    LET effect   == w.self.zone[i].effect
        colors   == w.self.zone[i].colors
        speed    == w.self.zone[i].speed
        wave_dir == w.self.zone[i].wave_dir
        n        == get_num_arguments(getattr(name))
    IN  CASE n = 0 -> call_setter(w, name, << >>)
          [] n = 1 ->
                IF effect = << "s", "t", "a", "r", "l", "i", "g", "h", "t", "R", "a", "n", "d", "o", "m" >> THEN call_setter(w, name, << speed >>)
                ELSE IF effect = << "w", "a", "v", "e" >> THEN call_setter(w, name, << wave_dir >>)
                ELSE IF effect = << "w", "h", "e", "e", "l" >> THEN call_setter(w, name, << wave_dir >>)
                ELSE IF effect = << "r", "i", "p", "p", "l", "e", "R", "a", "n", "d", "o", "m", "C", "o", "l", "o", "u", "r" >> THEN w
                ELSE record_call(log_error(w, "Effect requires 1 argument"),
                                 name, << wave_dir >>)
          [] n = 3 -> call_setter(w, name, SubSeq(colors, 1, 3))
          [] n = 4 ->
                IF effect = << "s", "t", "a", "r", "l", "i", "g", "h", "t", "S", "i", "n", "g", "l", "e" >> \/ effect = << "r", "e", "a", "c", "t", "i", "v", "e" >>
                THEN call_setter(w, name, SubSeq(colors, 1, 3) \o << speed >>)
                ELSE IF effect = << "r", "i", "p", "p", "l", "e" >> THEN w
                ELSE record_call(log_error(w, "Effect requires 4 arguments"),
                                 name, SubSeq(colors, 1, 3) \o << speed >>)
          [] n = 6 -> call_setter(w, name, SubSeq(colors, 1, 6))
          [] n = 7 -> call_setter(w, name, SubSeq(colors, 1, 6) \o << speed >>)
          [] n = 9 -> call_setter(w, name, SubSeq(colors, 1, 9))
          [] OTHER -> log_error(w, "Couldn't detect effect argument count")

dispatch_effect(w, i, name) ==
    LET effect   == w.self.zone[i].effect
        colors   == w.self.zone[i].colors
        speed    == w.self.zone[i].speed
        wave_dir == w.self.zone[i].wave_dir
        n        == get_num_arguments(getattr(name))
    IN  CASE n = 0 -> call_setter(w, name, << >>)
          [] n = 1 ->
                IF effect = << "s", "t", "a", "r", "l", "i", "g", "h", "t", "R", "a", "n", "d", "o", "m" >> THEN call_setter(w, name, << speed >>)
                ELSE IF effect = << "w", "a", "v", "e" >> THEN call_setter(w, name, << wave_dir >>)
                ELSE IF effect = << "w", "h", "e", "e", "l" >> THEN call_setter(w, name, << wave_dir >>)
                ELSE IF effect = << "r", "i", "p", "p", "l", "e", "R", "a", "n", "d", "o", "m", "C", "o", "l", "o", "u", "r" >> THEN w
                ELSE log_error(w, "Effect requires 1 argument")
          [] n = 3 -> call_setter(w, name, SubSeq(colors, 1, 3))
          [] n = 4 ->
                IF effect = << "s", "t", "a", "r", "l", "i", "g", "h", "t", "S", "i", "n", "g", "l", "e" >> \/ effect = << "r", "e", "a", "c", "t", "i", "v", "e" >>
                THEN call_setter(w, name, SubSeq(colors, 1, 3) \o << speed >>)
                ELSE IF effect = << "r", "i", "p", "p", "l", "e" >> THEN w
                ELSE log_error(w, "Effect requires 4 arguments")
          [] n = 6 -> call_setter(w, name, SubSeq(colors, 1, 6))
          [] n = 7 -> call_setter(w, name, SubSeq(colors, 1, 6) \o << speed >>)
          [] n = 9 -> call_setter(w, name, SubSeq(colors, 1, 9))
          [] OTHER -> log_error(w, "Couldn't detect effect argument count")

restore_effect_zone(w, i) ==
    IF w.exc # "none" \/ ~w.self.zone[i].present THEN w
    ELSE IF w.self.zone[i].effect = << >> THEN raise(w, "IndexError")
    ELSE LET effect == w.self.zone[i].effect
             first  == effect_func_name(i, effect)
             reset  == ~hasattr(first) /\ effect # spectrum
             w1     == IF reset
                       THEN [w EXCEPT !.self.zone[i].effect = spectrum]
                       ELSE w
             name   == IF reset THEN spectrum_func_name(i) ELSE first
         IN  IF hasattr(name) THEN dispatch_effect(w1, i, name) ELSE w1

\* for i in self.ZONES: if self.zone[i]["present"]: ...
RECURSIVE restore_effect_from(_, _)
restore_effect_from(w, zones) ==
    IF zones = << >> THEN w
    ELSE restore_effect_from(restore_effect_zone(w, Head(zones)), Tail(zones))

restore_effect(w) == restore_effect_from(w, present_zones(w))

--------------------------------------------------------------------------
(* DPI and poll rate. *)

abs(n) == IF n < 0 THEN 0 - n ELSE n

\* min(POLL_RATES, key=lambda x: abs(x - poll_rate)): the first of the nearest
nearest_poll_rate(rates, rate) ==
    LET k == CHOOSE i \in 1..Len(rates) :
                 /\ \A j \in 1..Len(rates) : abs(rates[i] - rate) <= abs(rates[j] - rate)
                 /\ \A j \in 1..(i - 1) : abs(rates[j] - rate) > abs(rates[i] - rate)
    IN  rates[k]

restore_dpi_poll_rate_unclamped(w) ==
    IF w.exc # "none" THEN w
    ELSE LET w1 == IF hasattr(<< "s", "e", "t", "D", "P", "I" >>)
                   THEN call_setter(w, << "s", "e", "t", "D", "P", "I" >>, w.self.dpi)
                   ELSE w
             in == \E k \in 1..Len(w.self.POLL_RATES) :
                       w.self.POLL_RATES[k] = w.self.poll_rate
             r  == IF in THEN w.self.poll_rate
                   ELSE nearest_poll_rate(w.self.POLL_RATES, w.self.poll_rate)
         IN  IF hasattr(<< "s", "e", "t", "P", "o", "l", "l", "R", "a", "t", "e" >>)
             THEN call_setter([w1 EXCEPT !.self.poll_rate = r], << "s", "e", "t", "P", "o", "l", "l", "R", "a", "t", "e" >>, << r >>)
             ELSE w1

\* restore_dpi_poll_rate without the constraint of the poll rate
restore_dpi_poll_rate_free(w) ==
    IF w.exc # "none" THEN w
    ELSE LET x  == IF w.self.dpi[1] > cls.DPI_MAX THEN cls.DPI_MAX ELSE w.self.dpi[1]
             y  == IF w.self.dpi[2] > cls.DPI_MAX THEN cls.DPI_MAX ELSE w.self.dpi[2]
             w1 == IF hasattr(<< "s", "e", "t", "D", "P", "I" >>)
                   THEN call_setter([w EXCEPT !.self.dpi = << x, y >>],
                                    << "s", "e", "t", "D", "P", "I" >>, << x, y >>)
                   ELSE w
         IN  IF hasattr(<< "s", "e", "t", "P", "o", "l", "l", "R", "a", "t", "e" >>)
             THEN call_setter(w1, << "s", "e", "t", "P", "o", "l", "l", "R", "a", "t", "e" >>, << w1.self.poll_rate >>)
             ELSE w1

restore_dpi_poll_rate(w) ==
    IF w.exc # "none" THEN w
    ELSE LET x  == IF w.self.dpi[1] > cls.DPI_MAX THEN cls.DPI_MAX ELSE w.self.dpi[1]
             y  == IF w.self.dpi[2] > cls.DPI_MAX THEN cls.DPI_MAX ELSE w.self.dpi[2]
             w1 == IF hasattr(<< "s", "e", "t", "D", "P", "I" >>)
                   THEN call_setter([w EXCEPT !.self.dpi = << x, y >>],
                                    << "s", "e", "t", "D", "P", "I" >>, << x, y >>)
                   ELSE w
             in == \E k \in 1..Len(w.self.POLL_RATES) :
                       w.self.POLL_RATES[k] = w.self.poll_rate
             r  == IF in THEN w.self.poll_rate
                   ELSE nearest_poll_rate(w.self.POLL_RATES, w.self.poll_rate)
         IN  IF hasattr(<< "s", "e", "t", "P", "o", "l", "l", "R", "a", "t", "e" >>)
             THEN call_setter([w1 EXCEPT !.self.poll_rate = r], << "s", "e", "t", "P", "o", "l", "l", "R", "a", "t", "e" >>, << r >>)
             ELSE w1

--------------------------------------------------------------------------
(* Device mode and serial number. *)

\* open(device_mode, 'wb') fails once the device directory is gone
\* bytes.strip(): the ASCII white space at both ends removed
ByteSpace == { 9, 10, 11, 12, 13, 32 }

RECURSIVE strip_bytes(_)
strip_bytes(b) ==
    IF b = << >> THEN b
    ELSE IF Head(b) \in ByteSpace THEN strip_bytes(Tail(b))
    ELSE IF b[Len(b)] \in ByteSpace THEN strip_bytes(SubSeq(b, 1, Len(b) - 1))
    ELSE b

ModeTries == 3

\* the loop of get_device_mode: reads[k] is what the k-th mode_file.read()
\* yields, the last one again for every later read
RECURSIVE read_mode(_, _, _)
read_mode(reads, mode, count) ==
    IF Len(mode) # 0 \/ count >= ModeTries THEN mode
    ELSE read_mode(reads,
                   strip_bytes(reads[IF count + 2 <= Len(reads) THEN count + 2 ELSE Len(reads)]),
                   count + 1)

\* RazerDevice.get_device_mode: the world and the value returned
get_device_mode(w, reads) ==
    IF w.exc # "none" THEN [w |-> w, value |-> << >>]
    ELSE IF ~w.device.exists THEN [w |-> raise(w, "FileNotFoundError"), value |-> << >>]
    ELSE LET mode == read_mode(reads, strip_bytes(reads[1]), 0)
         IN  IF Len(mode) < 2 THEN [w |-> raise(w, "IndexError"), value |-> << >>]
             ELSE [w |-> w, value |-> to_base(mode[1], 10) \o << ":" >> \o to_base(mode[2], 10)]

set_device_mode_raw(w, mode_id, param) ==
    IF w.exc # "none" THEN w
    ELSE IF ~w.device.exists THEN raise(w, "FileNotFoundError")
    ELSE record_call([w EXCEPT !.device.mode = << mode_id, param >>],
                     << "d", "e", "v", "i", "c", "e", "_", "m", "o", "d", "e" >>, << mode_id, param >>)

set_device_mode(w, mode_id, param) ==
    IF w.exc # "none" THEN w
    ELSE IF ~w.device.exists THEN raise(w, "FileNotFoundError")
    ELSE LET m == IF mode_id \notin {0, 3} THEN 0 ELSE mode_id
             p == IF param # 0 THEN 0 ELSE param
         IN  record_call([w EXCEPT !.device.mode = << m, p >>],
                         << "d", "e", "v", "i", "c", "e", "_", "m", "o", "d", "e" >>, << m, p >>)

get_vid_pid == << cls.USB_VID, cls.USB_PID >>

\* re.fullmatch(r"[\dA-Z]+", serial)
valid_serial_loose(serial) ==
    /\ serial # << >>
    /\ \A k \in 1..Len(serial) : serial[k] # "_"

valid_serial(serial) ==
    /\ serial # << >>
    /\ \A k \in 1..Len(serial) : IsDigit(serial[k]) \/ IsUpper(serial[k])

SerialTries == 5

\* The read loop: outcome k of the device_serial file is what the k-th open
\* and read yields, a text or an error.
RECURSIVE read_serial_forever(_, _, _)
read_serial_forever(w, serial, count) ==
    IF Len(serial) # 0 \/ count >= SerialTries + 1
    THEN [w |-> w, serial |-> serial]
    ELSE LET f  == w.device.serial_file
             o  == f[IF count + 1 <= Len(f) THEN count + 1 ELSE Len(f)]
             s  == IF o.err = "none" THEN strip(o.text) ELSE << >>
             w1 == [w EXCEPT !.trace.reads = @ + 1]
         IN  read_serial_forever(w1, s, count + 1)

RECURSIVE read_serial(_, _, _)
read_serial(w, serial, count) ==
    IF Len(serial) # 0 \/ count >= SerialTries
    THEN [w |-> w, serial |-> serial]
    ELSE LET f  == w.device.serial_file
             o  == f[IF count + 1 <= Len(f) THEN count + 1 ELSE Len(f)]
             s  == IF o.err = "none" THEN strip(o.text) ELSE << >>
             w1 == [w EXCEPT !.trace.reads = @ + 1]
         IN  read_serial(w1, s, count + 1)

\* self._unknown_serial_counter.get((vid, pid), 0)
counter_get(c) == IF get_vid_pid \in DOMAIN c THEN c[get_vid_pid] ELSE 0

\* self._unknown_serial_counter[(vid, pid)] = idx + 1
counter_put(c, idx) == (get_vid_pid :> (idx + 1)) @@ c

\* "UNKNOWN_{0:04X}{1:04X}_{2:04d}".format(vid, pid, idx)
unknown_serial(idx) ==
    << "U", "N", "K", "N", "O", "W", "N", "_" >> \o format_04X(cls.USB_VID) \o format_04X(cls.USB_PID)
        \o << "_" >> \o format_04d(idx)

\* get_serial with the counter left as it was
get_serial_stale(w) ==
    IF w.exc # "none" \/ w.self._serial # NoSerial THEN w
    ELSE LET r   == read_serial(w, << >>, 0)
             idx == counter_get(r.w.unknown_serial_counter)
         IN  IF valid_serial(r.serial)
             THEN [r.w EXCEPT !.self._serial = replace_space(r.serial)]
             ELSE [r.w EXCEPT !.self._serial = replace_space(unknown_serial(idx))]

\* get_serial without the test of the cached serial
get_serial_uncached(w) ==
    IF w.exc # "none" THEN w
    ELSE LET r   == read_serial(w, << >>, 0)
             idx == counter_get(r.w.unknown_serial_counter)
         IN  IF valid_serial(r.serial)
             THEN [r.w EXCEPT !.self._serial = replace_space(r.serial)]
             ELSE [r.w EXCEPT !.unknown_serial_counter = counter_put(@, idx),
                              !.self._serial = replace_space(unknown_serial(idx))]

get_serial(w) ==
    IF w.exc # "none" \/ w.self._serial # NoSerial THEN w
    ELSE LET r   == read_serial(w, << >>, 0)
             idx == counter_get(r.w.unknown_serial_counter)
         IN  IF valid_serial(r.serial)
             THEN [r.w EXCEPT !.self._serial = replace_space(r.serial)]
             ELSE [r.w EXCEPT !.unknown_serial_counter = counter_put(@, idx),
                              !.self._serial = replace_space(unknown_serial(idx))]

\* the USB_PID special cases of the local storage key
storage_name(serial) ==
    CASE cls.USB_PID = 3847 -> << "C", "h", "r", "o", "m", "a", "M", "u", "g" >>
      [] cls.USB_PID = 19   -> << "O", "r", "o", "c", "h", "i", "2", "0", "1", "1" >>
      [] cls.USB_PID = 22   -> << "D", "e", "a", "t", "h", "A", "d", "d", "e", "r", "3", "5", "G" >>
      [] cls.USB_PID = 41   -> << "D", "e", "a", "t", "h", "A", "d", "d", "e", "r", "3", "5", "G", "B", "l", "a", "c", "k" >>
      [] cls.USB_PID \in {36, 37} -> << "M", "a", "m", "b", "a", "2", "0", "1", "2" >>
      [] OTHER -> serial

--------------------------------------------------------------------------
(* Construction: the load of the persisted state. *)

\* the option name i + '_' + field of the device's section
ZoneKey(i, field) == << i, field >>
TopKey(name) == << name >>

\* persistence[storage_name][key] raises KeyError, getboolean NoOptionError
has_option(w, key) == key \in DOMAIN w.persistence.kv
option(w, key) == w.persistence.kv[key]

load_dpi(w) ==
    IF w.exc # "none" THEN w
    ELSE IF ~(Method("set_dpi_xy") \in cls.METHODS \/ Method("set_dpi_xy_byte") \in cls.METHODS)
    THEN w
    ELSE IF ~has_option(w, TopKey("dpi_x")) THEN w
    ELSE IF ~int(option(w, TopKey("dpi_x"))).ok THEN raise(w, "ValueError")
    ELSE LET w1 == [w EXCEPT !.self.dpi[1] = int(option(w, TopKey("dpi_x"))).val]
         IN  IF ~has_option(w1, TopKey("dpi_y")) THEN w1
             ELSE IF ~int(option(w1, TopKey("dpi_y"))).ok THEN raise(w1, "ValueError")
             ELSE [w1 EXCEPT !.self.dpi[2] = int(option(w1, TopKey("dpi_y"))).val]

load_poll_rate(w) ==
    IF w.exc # "none" \/ Method("set_poll_rate") \notin cls.METHODS THEN w
    ELSE IF ~has_option(w, TopKey("poll_rate")) THEN w
    ELSE IF ~int(option(w, TopKey("poll_rate"))).ok THEN raise(w, "ValueError")
    ELSE [w EXCEPT !.self.poll_rate = int(option(w, TopKey("poll_rate"))).val]

load_effect(w, i) ==
    IF w.exc # "none" \/ ~has_option(w, ZoneKey(i, "effect")) THEN w
    ELSE [w EXCEPT !.self.zone[i].effect = option(w, ZoneKey(i, "effect"))]

\* the load of active by the truth value of the text
load_active_truthy(w, i) ==
    IF w.exc # "none" \/ ~has_option(w, ZoneKey(i, "active")) THEN w
    ELSE [w EXCEPT !.self.zone[i].active = option(w, ZoneKey(i, "active")) # << >>]

load_active(w, i) ==
    IF w.exc # "none" \/ ~has_option(w, ZoneKey(i, "active")) THEN w
    ELSE IF ~getboolean(option(w, ZoneKey(i, "active"))).ok THEN raise(w, "ValueError")
    ELSE [w EXCEPT !.self.zone[i].active = getboolean(option(w, ZoneKey(i, "active"))).val]

load_brightness(w, i) ==
    IF w.exc # "none" \/ ~has_option(w, ZoneKey(i, "brightness")) THEN w
    ELSE IF ~float(option(w, ZoneKey(i, "brightness"))).ok THEN raise(w, "ValueError")
    ELSE [w EXCEPT !.self.zone[i].brightness =
                       float(option(w, ZoneKey(i, "brightness"))).val]

\* the except clause without the reinitialisation
reset_colors_keep(w, i) == w

\* except ValueError: invalid colors, reinitialize
reset_colors(w, i) == [w EXCEPT !.self.zone[i].colors = DefaultColors]

\* for index, item in enumerate(...split(" ")): item k is stored at index k - 1
RECURSIVE load_colors_from(_, _, _, _)
load_colors_from(w, i, items, k) ==
    IF k > Len(items)
    THEN IF Len(w.self.zone[i].colors) # Len(DefaultColors) THEN reset_colors(w, i) ELSE w
    ELSE IF ~int(items[k]).ok THEN reset_colors(w, i)
    ELSE IF k > Len(w.self.zone[i].colors) THEN raise(w, "IndexError")
    ELSE LET w1 == [w EXCEPT !.self.zone[i].colors[k] = int(items[k]).val]
         IN  IF ~(0 <= int(items[k]).val /\ int(items[k]).val <= 255)
             THEN reset_colors(w1, i)
             ELSE load_colors_from(w1, i, items, k + 1)

load_colors(w, i) ==
    IF w.exc # "none" \/ ~has_option(w, ZoneKey(i, "colors")) THEN w
    ELSE load_colors_from(w, i, split(option(w, ZoneKey(i, "colors"))), 1)

load_speed(w, i) ==
    IF w.exc # "none" \/ ~has_option(w, ZoneKey(i, "speed")) THEN w
    ELSE IF ~int(option(w, ZoneKey(i, "speed"))).ok THEN raise(w, "ValueError")
    ELSE [w EXCEPT !.self.zone[i].speed = int(option(w, ZoneKey(i, "speed"))).val]

load_wave_dir(w, i) ==
    IF w.exc # "none" \/ ~has_option(w, ZoneKey(i, "wave_dir")) THEN w
    ELSE IF ~int(option(w, ZoneKey(i, "wave_dir"))).ok THEN raise(w, "ValueError")
    ELSE [w EXCEPT !.self.zone[i].wave_dir = int(option(w, ZoneKey(i, "wave_dir"))).val]

load_zone(w, i) ==
    IF w.exc # "none" \/ ~w.self.zone[i].present \/ ~w.persistence.section THEN w
    ELSE load_wave_dir(load_speed(load_colors(load_brightness(load_active(
             load_effect(w, i), i), i), i), i), i)

\* for i in self.ZONES: if self.zone[i]["present"]: ...
RECURSIVE load_zones_from(_, _)
load_zones_from(w, zones) ==
    IF zones = << >> THEN w
    ELSE load_zones_from(load_zone(w, Head(zones)), Tail(zones))

load_last_effects(w) == load_zones_from(w, present_zones(w))

load_dpi_poll_rate(w) ==
    IF w.exc # "none" \/ ~w.persistence.section THEN w
    ELSE load_poll_rate(load_dpi(w))

\* the attributes __init__ sets before it reads anything
NewSelf ==
    [ _serial                   |-> NoSerial,
      storage_name              |-> << "U", "n", "k", "n", "o", "w", "n", "D", "e", "v", "i", "c", "e" >>,
      _observer_list            |-> << >>,
      _effect_sync_propagate_up |-> FALSE,
      _disable_notifications    |-> FALSE,
      _disable_persistence      |-> FALSE,
      _parent                   |-> None,
      zone                      |-> [i \in { ZONES[k] : k \in 1..Len(ZONES) } |-> DefaultZone],
      dpi                       |-> << 1800, 1800 >>,
      poll_rate                 |-> 500,
      POLL_RATES                |-> << >>,
      _is_closed                |-> FALSE ]

\* which zones the capability list makes present
zone_present(i) ==
    \/ i = "backlight" /\ ( \/ Method("set_static_effect") \in cls.METHODS
                            \/ Method("bw_set_static") \in cls.METHODS )
    \/ ZoneMethod(i, "_static_classic") \in cls.METHODS
    \/ ZoneMethod(i, "_static") \in cls.METHODS
    \/ ZoneMethod(i, "_active") \in cls.METHODS
    \/ ZoneMethod(i, "_on") \in cls.METHODS

\* the zones found by the "for i in self.ZONES" loop, which indexes effect_methods
zone_in_loop(i) ==
    \/ ZoneMethod(i, "_static_classic") \in cls.METHODS
    \/ ZoneMethod(i, "_static") \in cls.METHODS
    \/ ZoneMethod(i, "_active") \in cls.METHODS
    \/ ZoneMethod(i, "_on") \in cls.METHODS

init_attributes(w) ==
    LET w1 == get_serial([w EXCEPT !.self = NewSelf])
    IN  [w1 EXCEPT
           !.self.storage_name = storage_name(w1.self._serial),
           !.self.dpi = IF Method("available_dpi") \in cls.METHODS
                        THEN << 1800, 0 >> ELSE << 1800, 1800 >>,
           !.self.POLL_RATES = IF Method("set_poll_rate") \in cls.METHODS
                                  /\ cls.POLL_RATES = << >>
                               THEN DefaultPollRates ELSE cls.POLL_RATES]

init_zones(w) ==
    LET w1 == [w EXCEPT !.self.zone =
                   [i \in DOMAIN @ |-> [@[i] EXCEPT !.present = zone_present(i)]]]
    IN  IF \E i \in DOMAIN w.self.zone : zone_in_loop(i) /\ i \notin EffectMethodZones
        THEN raise(w1, "KeyError")
        ELSE w1

init_driver_mode(w) == IF cls.DRIVER_MODE THEN set_device_mode(w, 3, 0) ELSE w

\* the dual boot quirk alone taken as a reason to restore the effect
init_restore_quirk(w) ==
    LET w1 == restore_brightness(restore_dpi_poll_rate(w))
        w2 == IF config.restore_persistence \/ config.persistence_dual_boot_quirk
              THEN restore_effect(w1) ELSE w1
    IN  IF config.restore_persistence /\ config.persistence_dual_boot_quirk
        THEN restore_effect(w2)
        ELSE w2

init_restore(w) ==
    LET w1 == restore_brightness(restore_dpi_poll_rate(w))
        w2 == IF config.restore_persistence THEN restore_effect(w1) ELSE w1
    IN  IF config.restore_persistence /\ config.persistence_dual_boot_quirk
        THEN restore_effect(w2)
        ELSE w2

\* RazerDevice.__init__
construct(w) ==
    init_restore(init_driver_mode(load_last_effects(load_dpi_poll_rate(
        init_zones(init_attributes(w))))))

--------------------------------------------------------------------------
(* Suspend, resume and close. *)

\* the end of a suspend or resume that puts the flags back as it found them
set_disable_flags_back(w, value) ==
    IF w.exc # "none" THEN w
    ELSE [w EXCEPT !.self._disable_notifications = IF value THEN TRUE ELSE self._disable_notifications,
                   !.self._disable_persistence = IF value THEN TRUE ELSE self._disable_persistence]

\* the end of a suspend or resume in a finally clause
set_disable_flags_finally(w, value) ==
    [w EXCEPT !.self._disable_notifications = value,
              !.self._disable_persistence = value]

set_disable_flags(w, value) ==
    IF w.exc # "none" THEN w
    ELSE [w EXCEPT !.self._disable_notifications = value,
                   !.self._disable_persistence = value]

suspend_device(w) ==
    set_disable_flags(
        device_hook(disable_brightness(set_disable_flags(w, TRUE)), << "_", "s", "u", "s", "p", "e", "n", "d", "_", "d", "e", "v", "i", "c", "e" >>),
        FALSE)

resume_driver_mode(w) == IF cls.DRIVER_MODE THEN set_device_mode(w, 3, 0) ELSE w

\* resume_device with the device mode written after the brightness restore
resume_device_late_mode(w) ==
    set_disable_flags(
        device_hook(resume_driver_mode(restore_brightness(set_disable_flags(w, TRUE))),
                    << "_", "r", "e", "s", "u", "m", "e", "_", "d", "e", "v", "i", "c", "e" >>),
        FALSE)

resume_device(w) ==
    set_disable_flags(
        device_hook(restore_brightness(resume_driver_mode(set_disable_flags(w, TRUE))),
                    << "_", "r", "e", "s", "u", "m", "e", "_", "d", "e", "v", "i", "c", "e" >>),
        FALSE)

\* RazerDevice._close: the close hook
close_hook(w) ==
    IF w.exc # "none" THEN w
    ELSE record_call([w EXCEPT !.self._observer_list = << >>], << "_", "c", "l", "o", "s", "e" >>, << >>)

\* self.dpi = dpi_func()
read_dpi(w) ==
    IF Method("get_dpi_xy") \in cls.METHODS /\ hasattr(<< "g", "e", "t", "D", "P", "I" >>)
    THEN record_call([w EXCEPT !.self.dpi = w.device.dpi], "getDPI", << >>)
    ELSE w

\* the write of the device mode at close without the except clause
close_device_mode_strict(w) ==
    IF ~cls.DRIVER_MODE THEN w ELSE set_device_mode(w, 0, 0)

\* try: set_device_mode(0x00, 0x00) except FileNotFoundError: pass
close_device_mode(w) ==
    IF ~cls.DRIVER_MODE THEN w
    ELSE LET w1 == set_device_mode(w, 0, 0)
         IN  IF w1.exc = "FileNotFoundError" THEN [w1 EXCEPT !.exc = "none"] ELSE w1

\* close without the _is_closed test
close_unguarded(w) ==
    LET w1 == close_hook(close_device_mode(read_dpi(w)))
    IN  IF w1.exc # "none" THEN w1 ELSE [w1 EXCEPT !.self._is_closed = TRUE]

close(w) ==
    IF w.self._is_closed THEN w
    ELSE LET w1 == close_hook(close_device_mode(read_dpi(w)))
         IN  IF w1.exc # "none" THEN w1 ELSE [w1 EXCEPT !.self._is_closed = TRUE]

--------------------------------------------------------------------------
(* Inputs: the persisted records a device is constructed from. *)

\* the present zones of a class, in ZONES order
ClassZones(c) ==
    SelectSeq(ZONES, LAMBDA i :
        \/ i = "backlight" /\ ( \/ Method("set_static_effect") \in c.METHODS
                                \/ Method("bw_set_static") \in c.METHODS )
        \/ \E suffix \in {"_static_classic", "_static", "_active", "_on"} :
               ZoneMethod(i, suffix) \in c.METHODS)

ZoneFields == << "effect", "active", "brightness", "colors", "speed", "wave_dir" >>

ZoneKeys(i) == { ZoneKey(i, ZoneFields[k]) : k \in 1..Len(ZoneFields) }

TopKeys == { TopKey("dpi_x"), TopKey("dpi_y"), TopKey("poll_rate") }

ClassKeys(c) ==
    UNION { ZoneKeys(ClassZones(c)[k]) : k \in 1..Len(ClassZones(c)) } \cup TopKeys

\* the keys whose every combination of absences is enumerated
FocusKeys(c) == ZoneKeys(ClassZones(c)[1]) \cup TopKeys

RECURSIVE join(_)
join(items) ==
    IF items = << >> THEN << >>
    ELSE IF Len(items) = 1 THEN items[1]
    ELSE items[1] \o << " " >> \o join(Tail(items))

MaxColorItems == 10

ColorTokens == { << "7" >>, << "0" >>, << "2", "5", "5" >>, << "2", "5", "6" >>, << "-", "1" >>, << "x" >>, << >> }

\* lists of 1..MaxColorItems items, all "7" but one
ColorItemLists ==
    { [k \in 1..n |-> IF k = p THEN o ELSE << "7" >>] :
        <<n, p, o>> \in { t \in (1..MaxColorItems) \X (1..MaxColorItems) \X ColorTokens :
                            t[2] \in {1, (t[1] + 1) \div 2, t[1]} } }

BaseColorItems == << << "1" >>, << "2" >>, << "3" >>, << "4" >>, << "5" >>, << "6" >>, << "7" >>, << "8" >>, << "9" >> >>

EffectTexts ==
    { << "s", "p", "e", "c", "t", "r", "u", "m" >>, << "n", "o", "n", "e" >>, << "w", "a", "v", "e" >>, << "w", "h", "e", "e", "l" >>, << "s", "t", "a", "r", "l", "i", "g", "h", "t", "R", "a", "n", "d", "o", "m" >>,
      << "r", "i", "p", "p", "l", "e", "R", "a", "n", "d", "o", "m", "C", "o", "l", "o", "u", "r" >>, << "s", "t", "a", "t", "i", "c" >>, << "r", "e", "a", "c", "t", "i", "v", "e" >>, << "s", "t", "a", "r", "l", "i", "g", "h", "t", "S", "i", "n", "g", "l", "e" >>,
      << "r", "i", "p", "p", "l", "e" >>, << "b", "r", "e", "a", "t", "h", "D", "u", "a", "l" >>, << "s", "t", "a", "r", "l", "i", "g", "h", "t", "D", "u", "a", "l" >>, << "b", "r", "e", "a", "t", "h", "T", "r", "i", "p", "l", "e" >>,
      << "b", "r", "i", "g", "h", "t", "n", "e", "s", "s" >>, << "b", "o", "g", "u", "s" >>, << >> }

ActiveTexts ==
    { << "T", "r", "u", "e" >>, << "t", "r", "u", "e" >>, << "1" >>, << "y", "e", "s" >>, << "o", "n" >>, << "F", "a", "l", "s", "e" >>, << "0" >>, << "o", "f", "f" >>, << "m", "a", "y", "b", "e" >>, << >> }

BrightnessTexts ==
    { << "7", "5", ".", "0" >>, << "1", "0", "0" >>, << "0" >>, << "1", "2", ".", "5" >>, << "5", "0", ".", "5", "0" >>, << "5", "0", "0" >>, << "-", "1" >>, << "a", "b", "c" >>, << "n", "a", "n" >>, << >> }

SpeedTexts == { << "1" >>, << "2" >>, << "0" >>, << "+", "2" >>, << "f", "a", "s", "t" >>, << "2", ".", "5" >> }

WaveDirTexts == { << "1" >>, << "2" >>, << "7" >>, << "l", "e", "f", "t" >> }

DpiTexts == { << "8", "0", "0" >>, << "1", "6", "0", "0", "0" >>, << "2", "0", "0", "0", "0" >>, << "f", "a", "s", "t" >> }

PollRateTexts == { << "1", "2", "5" >>, << "5", "0", "0" >>, << "6", "0", "0" >>, << "8", "0", "0", "0" >>, << "x" >> }

\* the texts tried for one key
Alternatives(key) ==
    CASE Len(key) = 1 /\ key[1] \in {"dpi_x", "dpi_y"} -> DpiTexts
      [] Len(key) = 1 /\ key[1] = "poll_rate" -> PollRateTexts
      [] Len(key) = 2 /\ key[2] = "effect" -> EffectTexts
      [] Len(key) = 2 /\ key[2] = "active" -> ActiveTexts
      [] Len(key) = 2 /\ key[2] = "brightness" -> BrightnessTexts
      [] Len(key) = 2 /\ key[2] = "colors" -> { join(l) : l \in ColorItemLists }
      [] Len(key) = 2 /\ key[2] = "speed" -> SpeedTexts
      [] Len(key) = 2 /\ key[2] = "wave_dir" -> WaveDirTexts

\* a record in which every field is valid and differs from its default
BaseEffect(i) ==
    CASE i = "scroll" -> << "b", "r", "e", "a", "t", "h", "D", "u", "a", "l" >>
      [] i = "charging" -> << "w", "a", "v", "e" >>
      [] OTHER -> << "s", "t", "a", "t", "i", "c" >>

BaseText(key) ==
    CASE Len(key) = 1 /\ key[1] = "dpi_x" -> << "8", "0", "0" >>
      [] Len(key) = 1 /\ key[1] = "dpi_y" -> << "9", "0", "0" >>
      [] Len(key) = 1 /\ key[1] = "poll_rate" -> << "1", "0", "0", "0" >>
      [] Len(key) = 2 /\ key[2] = "effect" -> BaseEffect(key[1])
      [] Len(key) = 2 /\ key[2] = "active" -> << "F", "a", "l", "s", "e" >>
      [] Len(key) = 2 /\ key[2] = "brightness" -> << "5", "0", ".", "5" >>
      [] Len(key) = 2 /\ key[2] = "colors" -> join(BaseColorItems)
      [] Len(key) = 2 /\ key[2] = "speed" -> << "3" >>
      [] Len(key) = 2 /\ key[2] = "wave_dir" -> << "2" >>

Store(section, kv) == [section |-> section, kv |-> kv, changed |-> FALSE]

BaseStore(c) == Store(TRUE, [key \in ClassKeys(c) |-> BaseText(key)])

\* the store has no section for the device
NoSectionStore == Store(FALSE, << >>)

\* every combination of absent focus keys
AbsenceStores(c) ==
    { Store(TRUE, [key \in ClassKeys(c) \ A |-> BaseText(key)]) : A \in SUBSET FocusKeys(c) }

\* one key absent, or holding another text
DeviationStores(c) ==
    { Store(TRUE, [key \in ClassKeys(c) \ {k} |-> BaseText(key)]) : k \in ClassKeys(c) }
    \cup UNION { { Store(TRUE, [key \in ClassKeys(c) |-> IF key = k THEN t ELSE BaseText(key)]) :
                     t \in Alternatives(k) } : k \in ClassKeys(c) }

LoadStores(c) == {NoSectionStore} \cup AbsenceStores(c) \cup DeviationStores(c)

\* the effect names tried by the restore specification: those of the load,
\* and two that name callables which are no effect setters
RestoreEffectTexts == EffectTexts \cup { << "D", "P", "I" >>, << "p", "o", "l", "l", "R", "a", "t", "e" >>, << "l", "e", "d", "R", "o", "w" >>, << "b", "r", "e", "a", "t", "h", "_", "d", "u", "a", "l" >> }

\* the effect or the colours of one zone holding another text
RestoreStores(c) ==
    { NoSectionStore, BaseStore(c) } \cup
    UNION { { Store(TRUE, [key \in ClassKeys(c) |-> IF key = k THEN t ELSE BaseText(key)]) :
                t \in IF k[2] = "effect" THEN RestoreEffectTexts ELSE Alternatives(k) } :
            k \in { key \in ClassKeys(c) : Len(key) = 2 /\ key[2] \in {"effect", "colors"} } }

\* the records of the operations specification
OpStores(c) == { NoSectionStore, BaseStore(c) }

Flags(r, d) == [restore_persistence |-> r, persistence_dual_boot_quirk |-> d]

\* the control files of a freshly plugged device
NewDevice(serial) ==
    [ exists      |-> TRUE,
      fault       |-> "none",
      mode        |-> << 0, 0 >>,
      dpi         |-> << 1800, 1800 >>,
      serial_file |-> << [err |-> "none", text |-> serial] >> ]

--------------------------------------------------------------------------
(* The state machine. *)

Parents == { "sync" }

HardwareSerial == << "P", "M", "1", "2", "3", "4" >>

\* a device directory has appeared and no RazerDevice exists for it yet
Unconstructed ==
    /\ phase = "new"
    /\ self = NewSelf
    /\ device = NewDevice(HardwareSerial)
    /\ unknown_serial_counter = << >>
    /\ trace = EmptyTrace
    /\ op = [name |-> "none", args |-> << >>, exc |-> "none"]
    /\ devices = << >>
    /\ resolving = << >>
    /\ fanout = << >>

Fixed == UNCHANGED << cls, config, devices, resolving, fanout >>

\* RazerDevice(...): the constructor
Construct ==
    /\ phase = "new"
    /\ LET w == construct(World)
       IN  /\ Commit(w, "__init__", << >>)
           /\ phase' = IF w.exc = "none" THEN "active" ELSE "failed"
           /\ devices' = Append(devices, [ vid_pid     |-> get_vid_pid,
                                           serial_file |-> device.serial_file,
                                           serial      |-> w.self._serial ])
    /\ UNCHANGED << cls, config, resolving, fanout >>

RestoreEffect ==
    /\ phase = "active"
    /\ Commit(restore_effect(World), "restore_effect", << >>)
    /\ UNCHANGED phase /\ Fixed

SuspendDevice ==
    /\ phase = "active"
    /\ Commit(suspend_device(World), "suspend_device",
              << self.zone, self._disable_notifications, self._disable_persistence >>)
    /\ UNCHANGED phase /\ Fixed

ResumeDevice ==
    /\ phase = "active"
    /\ Commit(resume_device(World), "resume_device",
              << op.name, self._disable_notifications, self._disable_persistence >>)
    /\ UNCHANGED phase /\ Fixed

\* close(), called by the daemon or by __del__
Close ==
    /\ phase = "active"
    /\ Commit(close(World), "close", << >>)
    /\ UNCHANGED phase /\ Fixed

\* a setter of the RPC surface mirrors its value
SetPersistence(inputs) ==
    /\ phase = "active"
    /\ \E k \in 1..Len(present_zones(World)), kv \in inputs :
           Commit(set_persistence(World, present_zones(World)[k], kv[1], kv[2]),
                  "set_persistence", << present_zones(World)[k], kv[1], kv[2] >>)
    /\ UNCHANGED phase /\ Fixed

SendEffectEvent ==
    /\ phase = "active"
    /\ Commit(send_effect_event(World, << "s", "e", "t", "C", "u", "s", "t", "o", "m" >>, << >>), "send_effect_event", << >>)
    /\ UNCHANGED phase /\ Fixed

RegisterObserver(observers) ==
    /\ phase = "active"
    /\ \E o \in observers : Commit(register_observer(World, o), "register_observer", << o >>)
    /\ UNCHANGED phase /\ Fixed

RemoveObserver(observers) ==
    /\ phase = "active"
    /\ \E o \in observers : Commit(remove_observer(World, o), "remove_observer", << o >>)
    /\ UNCHANGED phase /\ Fixed

RegisterParent ==
    /\ phase = "active"
    /\ \E p \in Parents : Commit(register_parent(World, p), "register_parent", << p >>)
    /\ UNCHANGED phase /\ Fixed

\* the disable_persistence property setter
SetDisablePersistence ==
    /\ phase = "active"
    /\ \E b \in BOOLEAN :
           Commit([World EXCEPT !.self._disable_persistence = b],
                  "disable_persistence", << b >>)
    /\ UNCHANGED phase /\ Fixed

\* the effect_sync property setter
SetEffectSync ==
    /\ phase = "active"
    /\ \E b \in BOOLEAN :
           Commit([World EXCEPT !.self._effect_sync_propagate_up = b], "effect_sync", << b >>)
    /\ UNCHANGED phase /\ Fixed

\* the daemon has written the store to disk: status["changed"] = False
WritePersistence ==
    /\ phase = "active"
    /\ persistence.changed
    /\ Commit([World EXCEPT !.persistence.changed = FALSE], "write_persistence", << >>)
    /\ UNCHANGED phase /\ Fixed

\* the device is unplugged: its control files disappear
Unplug ==
    /\ phase = "active"
    /\ device.exists
    /\ Commit([World EXCEPT !.device.exists = FALSE], "unplug", << >>)
    /\ UNCHANGED phase /\ Fixed

\* The lifecycle of one device: construction from a valid record or from
\* no record, then any sequence of operations.
LifecycleObservers == { "o1", "o2" }

\* the values the brightness and active setters of the RPC surface mirror
LifecycleInputs == { << "brightness", Num(30) >>, << "active", TRUE >> }

Init ==
    /\ cls \in DeviceClasses
    /\ config = Flags(TRUE, FALSE)
    /\ persistence \in OpStores(cls)
    /\ Unconstructed

Next ==
    \/ Construct
    \/ RestoreEffect
    \/ SuspendDevice
    \/ ResumeDevice
    \/ Close
    \/ SetPersistence(LifecycleInputs)
    \/ SendEffectEvent
    \/ RegisterObserver(LifecycleObservers)
    \/ RemoveObserver(LifecycleObservers)
    \/ RegisterParent
    \/ SetEffectSync
    \/ WritePersistence
    \/ Unplug

Spec == Init /\ [][Next]_vars

\* The load: construction from every record of LoadStores under every
\* combination of the startup flags, then restore_effect and close.
InitLoad ==
    /\ cls \in DeviceClasses
    /\ config \in { Flags(r, d) : r \in BOOLEAN, d \in BOOLEAN }
    /\ persistence \in LoadStores(cls)
    /\ Unconstructed

NextLoad == Construct \/ RestoreEffect \/ Close

SpecLoad == InitLoad /\ [][NextLoad]_vars

\* The persistence setter: every field of every present zone, with the
\* disable_persistence flag set and cleared by its property setter.
PersistInputs ==
    { << "brightness", Num(30) >>, << "active", TRUE >>, << "effect", << "w", "a", "v", "e" >> >>,
      << "colors", << 9, 8, 7, 6, 5, 4, 3, 2, 1 >> >>, << "speed", 2 >>,
      << "wave_dir", 1 >> }

NextPersist ==
    \/ Construct
    \/ SetPersistence(PersistInputs)
    \/ SetDisablePersistence

InitPersist ==
    /\ cls \in { Keyboard, Mouse, Legacy }
    /\ config = Flags(FALSE, FALSE)
    /\ persistence = BaseStore(cls)
    /\ Unconstructed

SpecPersist == InitPersist /\ [][NextPersist]_vars

\* The restore: construction from every effect name and every colours text,
\* then restore_effect, suspend, resume and close in any order.
InitRestore ==
    /\ cls \in DeviceClasses \cup { BacklitMouse }
    /\ config \in { Flags(r, d) : r \in BOOLEAN, d \in BOOLEAN }
    /\ persistence \in RestoreStores(cls)
    /\ Unconstructed

NextRestore ==
    \/ Construct
    \/ RestoreEffect
    \/ SuspendDevice
    \/ ResumeDevice
    \/ Close

SpecRestore == InitRestore /\ [][NextRestore]_vars

\* The serial numbers: devices constructed one after the other by one
\* daemon, all handed the same unknown_serial_counter.
MaxDevices == 3

SerialClasses == { Keyboard, Mouse }

\* what the reads of device_serial yield, one after the other
SerialFiles ==
    { << [err |-> "none", text |-> << "P", "M", "1", "2", "3", "4" >>] >>,
      << [err |-> "none", text |-> << >>] >>,
      << [err |-> "none", text |-> << "D", "e", "f", "a", "u", "l", "t", " ", "s", "t", "r", "i", "n", "g" >>] >>,
      << [err |-> "none", text |-> << "p", "m", "1", "2" >>] >>,
      << [err |-> "none", text |-> << "A", "B", " ", "1", "2" >>] >>,
      << [err |-> "none", text |-> << "0", "0", "4", "2" >>] >>,
      << [err |-> "OSError", text |-> << >>], [err |-> "none", text |-> << "X", "X", "9", "9", " " >>] >> }

\* another device directory appears and the daemon instantiates its class
PlugNext ==
    /\ phase # "new"
    /\ Len(devices) < MaxDevices
    /\ \E c \in SerialClasses, f \in SerialFiles :
           /\ cls' = c
           /\ device' = [NewDevice(<< >>) EXCEPT !.serial_file = f]
           /\ op' = [name |-> "plug", args |-> << c.name >>, exc |-> "none"]
    /\ phase' = "new"
    /\ self' = NewSelf
    /\ trace' = EmptyTrace
    /\ UNCHANGED << config, persistence, unknown_serial_counter, devices, resolving, fanout >>

InitSerial ==
    /\ cls \in SerialClasses
    /\ config = Flags(FALSE, FALSE)
    /\ persistence = NoSectionStore
    /\ phase = "new"
    /\ self = NewSelf
    /\ device \in { [NewDevice(<< >>) EXCEPT !.serial_file = f] : f \in SerialFiles }
    /\ unknown_serial_counter = << >>
    /\ trace = EmptyTrace
    /\ op = [name |-> "none", args |-> << >>, exc |-> "none"]
    /\ devices = << >>
    /\ resolving = << >>
    /\ fanout = << >>

NextSerial == Construct \/ PlugNext

SpecSerial == InitSerial /\ [][NextSerial]_vars

\* The serial numbers of devices initialised at the same time: each thread
\* runs get_serial for its own device of the class, and a step is what one
\* thread does between two accesses of the shared counter.
Threads == { 1, 2 }

RaceTexts == { << >>, << "D", "e", "f", "a", "u", "l", "t", " ", "s", "t", "r", "i", "n", "g" >>, << "P", "M", "1", "2", "3", "4" >> }

\* lines 965-995: the reads of device_serial and the test of the serial
ResolveRead(t) ==
    /\ resolving[t].pc = "start"
    /\ LET serial == strip(resolving[t].text)
       IN  resolving' =
               [resolving EXCEPT ![t] =
                   IF valid_serial(serial)
                   THEN [@ EXCEPT !.pc = "done", !.serial = replace_space(serial)]
                   ELSE [@ EXCEPT !.pc = "get"]]
    /\ UNCHANGED << cls, config, phase, self, persistence, device,
                    unknown_serial_counter, trace, op, devices, fanout >>

\* line 999: idx = self._unknown_serial_counter.get((vid, pid), 0)
ResolveGet(t) ==
    /\ resolving[t].pc = "get"
    /\ resolving' = [resolving EXCEPT ![t].pc = "put",
                                      ![t].idx = counter_get(unknown_serial_counter)]
    /\ UNCHANGED << cls, config, phase, self, persistence, device,
                    unknown_serial_counter, trace, op, devices, fanout >>

\* lines 1000-1003: the write of idx + 1 and the generated serial
ResolvePut(t) ==
    /\ resolving[t].pc = "put"
    /\ unknown_serial_counter' = counter_put(unknown_serial_counter, resolving[t].idx)
    /\ resolving' = [resolving EXCEPT
                         ![t].pc = "done",
                         ![t].serial = replace_space(unknown_serial(resolving[t].idx))]
    /\ UNCHANGED << cls, config, phase, self, persistence, device, trace, op, devices, fanout >>

InitRace ==
    /\ cls \in DeviceClasses
    /\ config = Flags(FALSE, FALSE)
    /\ persistence = NoSectionStore
    /\ phase = "new"
    /\ self = NewSelf
    /\ device = NewDevice(<< >>)
    /\ unknown_serial_counter = << >>
    /\ trace = EmptyTrace
    /\ op = [name |-> "none", args |-> << >>, exc |-> "none"]
    /\ devices = << >>
    /\ resolving \in [Threads -> { [pc |-> "start", text |-> x, idx |-> 0, serial |-> << >>] :
                                      x \in RaceTexts }]
    /\ fanout = << >>

NextRace ==
    \E t \in Threads : ResolveRead(t) \/ ResolveGet(t) \/ ResolvePut(t)

SpecRace == InitRace /\ [][NextRace]_vars

\* The reads of device_serial: attempts that fail or come back empty, then
\* one that yields a serial, or none that does.
ReadFailures ==
    { [err |-> "none", text |-> << >>], [err |-> "none", text |-> << " ", " " >>],
      [err |-> "OSError", text |-> << >>], [err |-> "PermissionError", text |-> << >>],
      [err |-> "UnicodeDecodeError", text |-> << >>] }

MaxFailures == 5

ReadFiles ==
    { << o >> : o \in ReadFailures }
    \cup { [k \in 1..(n + 1) |-> IF k <= n THEN o ELSE [err |-> "none", text |-> << "P", "M", "1", "2", "3", "4" >>]] :
               n \in 0..MaxFailures, o \in ReadFailures }
    \cup { << [err |-> "OSError", text |-> << >>], [err |-> "none", text |-> << >>],
              [err |-> "PermissionError", text |-> << >>],
              [err |-> "UnicodeDecodeError", text |-> << >>],
              [err |-> "none", text |-> << "P", "M", "1", "2", "3", "4" >>] >> }

InitRead ==
    /\ cls \in DeviceClasses
    /\ config = Flags(FALSE, FALSE)
    /\ persistence = NoSectionStore
    /\ phase = "new"
    /\ self = NewSelf
    /\ device \in { [NewDevice(<< >>) EXCEPT !.serial_file = f] : f \in ReadFiles }
    /\ unknown_serial_counter = << >>
    /\ trace = EmptyTrace
    /\ op = [name |-> "none", args |-> << >>, exc |-> "none"]
    /\ devices = << >>
    /\ resolving = << >>
    /\ fanout = << >>

NextRead == Construct

SpecRead == InitRead /\ [][NextRead]_vars

\* The end of a device: observers are registered, the device may be
\* removed, and close() is called, perhaps more than once.
InitClose ==
    /\ cls \in DeviceClasses
    /\ config \in { Flags(a, b) : a, b \in BOOLEAN }
    /\ persistence = BaseStore(cls)
    /\ Unconstructed

NextClose ==
    \/ Construct
    \/ RegisterObserver(LifecycleObservers)
    \/ RemoveObserver(LifecycleObservers)
    \/ Unplug
    \/ Close

SpecClose == InitClose /\ [][NextClose]_vars

\* Devices as observers of one another.  A device registered as an observer
\* is notified through RazerDevice.notify, which hands the message to its own
\* observers; any other observer (a leaf) receives the message and may, in
\* its notify, remove itself from the device that notified it.  A broadcast
\* is run one step at a time: stack holds, for every notify that has not
\* returned, the device and the position of its for loop.
FanDevices == { "a", "b" }

FanLeaves == { "x", "y" }

MaxObservers == 2

\* the depth at which the interpreter raises RecursionError
RecursionLimit == 4

QuietFan(list) ==
    [ list     |-> list,
      stack    |-> << >>,
      received |-> [o \in FanDevices \cup FanLeaves |-> 0],
      began    |-> << >>,
      root     |-> "none",
      exc      |-> "none" ]

FanFrame == UNCHANGED << cls, config, phase, self, persistence, device,
                         unknown_serial_counter, trace, op, devices, resolving >>

\* d.register_observer(o), between two broadcasts
FanRegister(d, o) ==
    /\ fanout.stack = << >>
    /\ Len(fanout.list[d]) < MaxObservers
    /\ ~\E k \in 1..Len(fanout.list[d]) : fanout.list[d][k] = o
    /\ fanout' = QuietFan([fanout.list EXCEPT ![d] = Append(@, o)])
    /\ FanFrame

\* d.notify(msg), or the loop of d.notify_observers(msg), begins
FanStart(d) ==
    /\ fanout.stack = << >>
    /\ fanout' = [QuietFan(fanout.list) EXCEPT !.stack = << [dev |-> d, k |-> 1] >>,
                                               !.began = fanout.list[d],
                                               !.root = d]
    /\ FanFrame

\* the for loop of the innermost notify takes its next observer and calls
\* observer.notify(msg)
FanDeliver ==
    /\ fanout.stack # << >>
    /\ LET n   == Len(fanout.stack)
           top == fanout.stack[n]
           l   == fanout.list[top.dev]
       IN  /\ top.k <= Len(l)
           /\ LET o  == l[top.k]
                  f1 == [fanout EXCEPT !.stack[n].k = top.k + 1,
                                       !.received[o] = @ + 1]
              IN  IF o \in FanDevices
                  THEN fanout' = IF n >= RecursionLimit
                                 THEN [f1 EXCEPT !.stack = << >>, !.exc = "RecursionError"]
                                 ELSE [f1 EXCEPT !.stack = Append(@, [dev |-> o, k |-> 1])]
                  ELSE \E unsubscribe \in BOOLEAN :
                           fanout' = IF unsubscribe
                                     THEN [f1 EXCEPT !.list[top.dev] =
                                              SubSeq(l, 1, top.k - 1)
                                                  \o SubSeq(l, top.k + 1, Len(l))]
                                     ELSE f1
    /\ FanFrame

\* the for loop of the innermost notify is exhausted: the call returns
FanReturn ==
    /\ fanout.stack # << >>
    /\ LET n   == Len(fanout.stack)
           top == fanout.stack[n]
       IN  /\ top.k > Len(fanout.list[top.dev])
           /\ fanout' = [fanout EXCEPT !.stack = SubSeq(@, 1, n - 1)]
    /\ FanFrame

InitFan ==
    /\ cls = Keyboard
    /\ config = Flags(FALSE, FALSE)
    /\ persistence = NoSectionStore
    /\ phase = "new"
    /\ self = NewSelf
    /\ device = NewDevice(<< >>)
    /\ unknown_serial_counter = << >>
    /\ trace = EmptyTrace
    /\ op = [name |-> "none", args |-> << >>, exc |-> "none"]
    /\ devices = << >>
    /\ resolving = << >>
    /\ fanout = QuietFan([d \in FanDevices |-> << >>])

NextFan ==
    \/ \E d \in FanDevices, o \in FanDevices \cup FanLeaves : FanRegister(d, o)
    \/ \E d \in FanDevices : FanStart(d)
    \/ FanDeliver
    \/ FanReturn

SpecFan == InitFan /\ [][NextFan]_vars

\* The device mode: the bytes a caller may ask for.
ModeIds == { 0, 1, 2, 3, 4, 255 }

ModeParams == { 0, 1, 3, 255 }

SetDeviceMode ==
    /\ phase = "active"
    /\ \E m \in ModeIds, p \in ModeParams :
           Commit(set_device_mode(World, m, p), "set_device_mode", << m, p >>)
    /\ UNCHANGED phase /\ Fixed

\* which reads of device_mode yield the content of the file (TRUE) and
\* which come back empty (FALSE)
ModeReadPatterns ==
    { << TRUE >>, << FALSE, TRUE >>, << FALSE, FALSE, TRUE >>,
      << FALSE, FALSE, FALSE, TRUE >>, << FALSE >> }

GetDeviceMode ==
    /\ phase = "active"
    /\ \E pattern \in ModeReadPatterns :
           LET reads == [k \in 1..Len(pattern) |-> IF pattern[k] THEN device.mode ELSE << >>]
               r     == get_device_mode(World, reads)
           IN  Commit(r.w, "get_device_mode", << pattern, r.value >>)
    /\ UNCHANGED phase /\ Fixed

InitMode ==
    /\ cls \in DeviceClasses
    /\ config \in { Flags(a, b) : a, b \in BOOLEAN }
    /\ persistence = BaseStore(cls)
    /\ Unconstructed

NextMode == Construct \/ SetDeviceMode \/ GetDeviceMode \/ Unplug

SpecMode == InitMode /\ [][NextMode]_vars

\* The stored DPI: a mouse whose DPI_MAX went down to 1600 (the same device
\* on another connection) next to the mouse with DPI_MAX 16000.
SmallMouse == [Mouse EXCEPT !.name = "SmallMouse", !.DPI_MAX = 1600]

StoredDpiTexts == { << "8", "0", "0" >>, << "1", "6", "0", "0" >>, << "1", "6", "0", "1" >>, << "5", "0", "0", "0" >>, << "1", "6", "0", "0", "0" >>, << "2", "0", "0", "0", "0" >> }

DpiStores(c) ==
    { Store(TRUE, [key \in ClassKeys(c) |->
                      IF key = TopKey("dpi_x") THEN x
                      ELSE IF key = TopKey("dpi_y") THEN y
                      ELSE BaseText(key)]) : x, y \in StoredDpiTexts }

RestoreDpiPollRate ==
    /\ phase = "active"
    /\ Commit(restore_dpi_poll_rate(World), "restore_dpi_poll_rate", << >>)
    /\ UNCHANGED phase /\ Fixed

InitDpi ==
    /\ cls \in { Mouse, SmallMouse, Keyboard }
    /\ config = Flags(FALSE, FALSE)
    /\ persistence \in DpiStores(cls)
    /\ Unconstructed

NextDpi == Construct \/ RestoreDpiPollRate \/ Unplug \/ Close

SpecDpi == InitDpi /\ [][NextDpi]_vars

\* The observers of a device: the daemon registers and removes them, sets
\* the two flags and the parent, and sends messages.
BusObservers == { "o1", "o2", "o3" }

Messages == { << "effect", << "s", "e", "t", "S", "t", "a", "t", "i", "c" >> >>, << "effect", << "s", "e", "t", "W", "a", "v", "e" >> >> }

SetDisableNotify ==
    /\ phase = "active"
    /\ \E b \in BOOLEAN :
           Commit([World EXCEPT !.self._disable_notifications = b], "disable_notify", << b >>)
    /\ UNCHANGED phase /\ Fixed

NotifyObservers ==
    /\ phase = "active"
    /\ \E msg \in Messages :
           Commit(notify_observers(World, msg), "notify_observers", msg)
    /\ UNCHANGED phase /\ Fixed

Notify ==
    /\ phase = "active"
    /\ \E msg \in Messages : Commit(notify(World, msg), "notify", msg)
    /\ UNCHANGED phase /\ Fixed

InitBus ==
    /\ cls \in { Keyboard, Mouse }
    /\ config = Flags(FALSE, FALSE)
    /\ persistence = BaseStore(cls)
    /\ Unconstructed

NextBus ==
    \/ Construct
    \/ RegisterObserver(BusObservers)
    \/ RemoveObserver(BusObservers)
    \/ RegisterParent
    \/ SetEffectSync
    \/ SetDisableNotify
    \/ NotifyObservers
    \/ Notify

SpecBus == InitBus /\ [][NextBus]_vars


--------------------------------------------------------------------------
(* Properties. The expected values below are written from the             *)
(* specification of the device, independently of the operators above.      *)

\* the callables of the class bound to a zone's value or effect
SetterOf(kind, i, effect) ==
    { n \in DOMAIN cls.attrs :
        /\ cls.attrs[n].kind = kind
        /\ cls.attrs[n].zone = i
        /\ cls.attrs[n].effect = effect }

CallsOf(calls, names) == SelectSeq(calls, LAMBDA c : c.name \in names)

Zones == { ZONES[k] : k \in 1..Len(ZONES) }

PresentZones == { i \in Zones : self.zone[i].present }

--------------------------------------------------------------------------
(* Suspend and resume. *)

\* C1: a resume_device that follows a suspend_device calls, for every present
\* zone that has the setter, the active setter and the brightness setter
\* exactly once, with the value the zone held just before the suspend; and
\* neither call delivers an event to an observer or to the parent.
SuspendResumeRestores ==
    [][ (op.name = "suspend_device" /\ op'.name = "resume_device" /\ op'.exc = "none")
        => /\ \A i \in PresentZones : \A kind \in {"active", "brightness"} :
                  SetterOf(kind, i, << >>) # {}
                  => LET vc == CallsOf(trace'.calls, SetterOf(kind, i, << >>))
                     IN  /\ Len(vc) = 1
                         /\ vc[1].args = << op.args[1][i][kind] >>
           /\ trace.delivered = << >>
           /\ trace'.delivered = << >> ]_vars

\* a resume after a suspend, with two setters called with the values of the
\* zone, an observer and a sync parent registered, and nothing delivered
SuspendResumeReached ==
    /\ op.name = "resume_device" /\ op.args[1] = "suspend_device" /\ op.exc = "none"
    /\ self._observer_list # << >>
    /\ self._parent # None /\ self._effect_sync_propagate_up
    /\ trace.delivered = << >>
    /\ self.zone["logo"].present
    /\ self.zone["logo"].brightness = Num(30)
    /\ CallsOf(trace.calls, { << "s", "e", "t", "L", "o", "g", "o", "B", "r", "i", "g", "h", "t", "n", "e", "s", "s" >> })
           = << [name |-> << "s", "e", "t", "L", "o", "g", "o", "B", "r", "i", "g", "h", "t", "n", "e", "s", "s" >>, args |-> << Num(30) >>] >>
    /\ CallsOf(trace.calls, { << "s", "e", "t", "L", "o", "g", "o", "A", "c", "t", "i", "v", "e" >> })
           = << [name |-> << "s", "e", "t", "L", "o", "g", "o", "A", "c", "t", "i", "v", "e" >>, args |-> << self.zone["logo"].active >>] >>

\* C2: a suspend_device or resume_device leaves every zone record and the
\* store (its dirty flag included) as they were, whatever its setters and
\* hooks passed to set_persistence.
SuspendResumeFrame ==
    [][ op'.name \in {"suspend_device", "resume_device"}
        => /\ self'.zone = self.zone
           /\ persistence' = persistence ]_vars

\* a suspend whose setters wrote brightness 0 and active False while the
\* zone keeps another brightness, stays active, and the store stays clean
SuspendFrameReached ==
    /\ op.name = "suspend_device"
    /\ ~persistence.changed
    /\ \E i \in PresentZones :
           /\ self.zone[i].active
           /\ self.zone[i].brightness # Num(0)
           /\ \E n \in SetterOf("active", i, << >>) :
                  CallsOf(trace.calls, {n}) = << [name |-> n, args |-> << FALSE >>] >>
           /\ \E n \in SetterOf("brightness", i, << >>) :
                  CallsOf(trace.calls, {n}) = << [name |-> n, args |-> << Num(0) >>] >>
    /\ CallsOf(trace.calls, { << "_", "s", "u", "s", "p", "e", "n", "d", "_", "d", "e", "v", "i", "c", "e" >> }) # << >>
    /\ cls.hooks

--------------------------------------------------------------------------
(* Close. *)

\* C3: a close() of a closed device reads no DPI, writes no device mode,
\* runs no close hook and changes no state.
CloseIdempotent ==
    [][ (self._is_closed /\ op'.name = "close")
        => /\ trace'.calls = << >>
           /\ op'.exc = "none"
           /\ self' = self
           /\ device' = device
           /\ persistence' = persistence
           /\ unknown_serial_counter' = unknown_serial_counter ]_vars

\* a second close of a device that has a DPI readback or a device mode
CloseAgainReached ==
    /\ op.name = "close"
    /\ self._is_closed
    /\ trace.calls = << >>
    /\ cls.DRIVER_MODE \/ hasattr(<< "g", "e", "t", "D", "P", "I" >>)

--------------------------------------------------------------------------
(* The effect dispatch. *)

\* the pairs of arity and effect the dispatch has a rule for
Documented(n, effect) ==
    \/ n \in {0, 3, 6, 7, 9}
    \/ n = 1 /\ effect \in { << "s", "t", "a", "r", "l", "i", "g", "h", "t", "R", "a", "n", "d", "o", "m" >>, << "w", "a", "v", "e" >>, << "w", "h", "e", "e", "l" >> }
    \/ n = 4 /\ effect \in { << "s", "t", "a", "r", "l", "i", "g", "h", "t", "S", "i", "n", "g", "l", "e" >>, << "r", "e", "a", "c", "t", "i", "v", "e" >> }

\* the arguments of the rule, from the zone record z
DocumentedArgs(n, effect, z) ==
    CASE n = 0 -> << >>
      [] n = 1 -> IF effect = << "s", "t", "a", "r", "l", "i", "g", "h", "t", "R", "a", "n", "d", "o", "m" >> THEN << z.speed >> ELSE << z.wave_dir >>
      [] n = 3 -> << z.colors[1], z.colors[2], z.colors[3] >>
      [] n = 4 -> << z.colors[1], z.colors[2], z.colors[3], z.speed >>
      [] n = 6 -> << z.colors[1], z.colors[2], z.colors[3],
                     z.colors[4], z.colors[5], z.colors[6] >>
      [] n = 7 -> << z.colors[1], z.colors[2], z.colors[3],
                     z.colors[4], z.colors[5], z.colors[6], z.speed >>
      [] n = 9 -> z.colors

\* C4: a restore_effect that returns calls, for every present zone whose
\* effect has a setter with a documented arity, that setter exactly once
\* with the arguments of its arity (none; speed for starlightRandom,
\* wave_dir for wave and wheel; the first 3, 6 or 9 colours; the first 3
\* or 6 colours and the speed), and every effect setter it calls gets the
\* arguments of its arity.
RestoreEffectArguments ==
    [][ (op'.name = "restore_effect" /\ op'.exc = "none")
        => /\ \A i \in PresentZones : \A n \in SetterOf("effect", i, self.zone[i].effect) :
                  Documented(cls.attrs[n].arity, self.zone[i].effect)
                  => CallsOf(trace'.calls, {n})
                         = << [name |-> n,
                               args |-> DocumentedArgs(cls.attrs[n].arity,
                                                       self.zone[i].effect, self.zone[i])] >>
           /\ \A k \in 1..Len(trace'.calls) :
                  LET c == trace'.calls[k]
                      a == cls.attrs[c.name]
                  IN  /\ a.kind = "effect"
                      /\ c.args = DocumentedArgs(a.arity, a.effect, self.zone[a.zone])
                      /\ \A j \in 1..Len(trace'.calls) :
                             cls.attrs[trace'.calls[j].name].zone = a.zone => j = k ]_vars

\* the logo zone with effect wave and wave_dir 2, its setter of one
\* parameter called with 2; the scroll zone's setter with six colours
RestoreEffectReached ==
    /\ op = [name |-> "restore_effect", args |-> << >>, exc |-> "none"]
    /\ self.zone["logo"].present
    /\ self.zone["logo"].effect = << "w", "a", "v", "e" >>
    /\ self.zone["logo"].wave_dir = 2
    /\ self.zone["logo"].speed # 2
    /\ trace.calls = << [name |-> << "s", "e", "t", "L", "o", "g", "o", "W", "a", "v", "e" >>, args |-> << 2 >>],
                        [name |-> << "s", "e", "t", "S", "c", "r", "o", "l", "l", "B", "r", "e", "a", "t", "h", "D", "u", "a", "l" >>, args |-> << 1, 2, 3, 4, 5, 6 >>] >>

\* C5: a restore_effect on a zone whose effect is not spectrum and names no
\* attribute of the device sets the zone's effect to spectrum and marks the
\* store dirty; a restore_effect that follows a restore_effect changes
\* nothing.
InvalidEffectCorrectionPersisted ==
    [][ (op'.name = "restore_effect" /\ op'.exc = "none")
        => /\ \A i \in PresentZones :
                  ( /\ self.zone[i].effect \notin { spectrum, << >> }
                    /\ ~hasattr(effect_func_name(i, self.zone[i].effect)) )
                  => /\ self'.zone[i].effect = spectrum
                     /\ persistence'.changed
           /\ op.name = "restore_effect"
                  => /\ self' = self
                     /\ persistence' = persistence ]_vars

--------------------------------------------------------------------------
(* The load. *)

ColorValue ==
    (<< "0" >> :> 0) @@ (<< "1" >> :> 1) @@ (<< "2" >> :> 2) @@ (<< "3" >> :> 3) @@ (<< "4" >> :> 4) @@
    (<< "5" >> :> 5) @@ (<< "6" >> :> 6) @@ (<< "7" >> :> 7) @@ (<< "8" >> :> 8) @@ (<< "9" >> :> 9) @@
    (<< "2", "5", "5" >> :> 255)

ActiveValue ==
    (<< "T", "r", "u", "e" >> :> TRUE) @@ (<< "t", "r", "u", "e" >> :> TRUE) @@ (<< "1" >> :> TRUE) @@ (<< "y", "e", "s" >> :> TRUE) @@
    (<< "o", "n" >> :> TRUE) @@ (<< "F", "a", "l", "s", "e" >> :> FALSE) @@ (<< "0" >> :> FALSE) @@ (<< "o", "f", "f" >> :> FALSE)

BrightnessValue ==
    (<< "7", "5", ".", "0" >> :> [kind |-> "num", m |-> 75, e |-> 0]) @@
    (<< "1", "0", "0" >> :> [kind |-> "num", m |-> 100, e |-> 0]) @@
    (<< "0" >> :> [kind |-> "num", m |-> 0, e |-> 0]) @@
    (<< "1", "2", ".", "5" >> :> [kind |-> "num", m |-> 125, e |-> 1]) @@
    (<< "5", "0", ".", "5" >> :> [kind |-> "num", m |-> 505, e |-> 1]) @@
    (<< "5", "0", ".", "5", "0" >> :> [kind |-> "num", m |-> 505, e |-> 1]) @@
    (<< "5", "0", "0" >> :> [kind |-> "num", m |-> 500, e |-> 0]) @@
    (<< "-", "1" >> :> [kind |-> "num", m |-> 0 - 1, e |-> 0])

IntValue ==
    (<< "0" >> :> 0) @@ (<< "1" >> :> 1) @@ (<< "2" >> :> 2) @@ (<< "3" >> :> 3) @@ (<< "+", "2" >> :> 2) @@
    (<< "7" >> :> 7) @@ (<< "1", "2", "5" >> :> 125) @@ (<< "5", "0", "0" >> :> 500) @@ (<< "6", "0", "0" >> :> 600) @@
    (<< "8", "0", "0" >> :> 800) @@ (<< "9", "0", "0" >> :> 900) @@ (<< "1", "0", "0", "0" >> :> 1000) @@ (<< "8", "0", "0", "0" >> :> 8000) @@
    (<< "1", "6", "0", "0" >> :> 1600) @@ (<< "1", "6", "0", "1" >> :> 1601) @@ (<< "5", "0", "0", "0" >> :> 5000) @@
    (<< "1", "6", "0", "0", "0" >> :> 16000) @@ (<< "2", "0", "0", "0", "0" >> :> 20000)

\* the item lists that are nine colours
ValidColorLists ==
    { l \in ColorItemLists \cup { BaseColorItems } :
        Len(l) = 9 /\ \A k \in 1..Len(l) : l[k] \in DOMAIN ColorValue }

\* the item lists the load has to refuse: not nine items, or an item out of 0..255
InvalidColorLists ==
    { l \in ColorItemLists :
        Len(l) # 9 \/ \E k \in 1..Len(l) : l[k] \in { << "2", "5", "6" >>, << "-", "1" >> } }

Stored(key) == key \in DOMAIN persistence.kv

\* the value a valid text of a zone field stands for
FieldValue(field, text) ==
    CASE field = "effect" -> text
      [] field = "active" -> ActiveValue[text]
      [] field = "brightness" -> BrightnessValue[text]
      [] field = "colors" ->
            LET l == CHOOSE l \in ValidColorLists : join(l) = text
            IN  [k \in 1..9 |-> ColorValue[l[k]]]
      [] field \in {"speed", "wave_dir"} -> IntValue[text]

ValidField(i, field, text) ==
    CASE field = "effect" -> SetterOf("effect", i, text) # {}
      [] field = "active" -> text \in DOMAIN ActiveValue
      [] field = "brightness" -> text \in DOMAIN BrightnessValue
      [] field = "colors" -> \E l \in ValidColorLists : join(l) = text
      [] field \in {"speed", "wave_dir"} -> text \in DOMAIN IntValue

Fields == { ZoneFields[k] : k \in 1..Len(ZoneFields) }

\* C6: a colors text that is not nine items, or has an item out of 0..255,
\* lets the construction complete with the default palette.
InvalidColorsReset ==
    \A i \in PresentZones : \A l \in InvalidColorLists :
        ( /\ phase # "new"
          /\ persistence.section
          /\ Stored(ZoneKey(i, "colors"))
          /\ persistence.kv[ZoneKey(i, "colors")] = join(l) )
        => /\ phase = "active"
           /\ self.zone[i].colors = DefaultColors

ValidRecord ==
    /\ persistence.section
    /\ \A i \in PresentZones : \A f \in Fields :
           /\ Stored(ZoneKey(i, f))
           /\ ValidField(i, f, persistence.kv[ZoneKey(i, f)])
    /\ \A key \in TopKeys : Stored(key) => persistence.kv[key] \in DOMAIN IntValue

\* C7: constructed from a valid record, the device holds in every field of
\* every present zone the value its text stands for.
ValidRecordLoaded ==
    (phase # "new" /\ ValidRecord)
    => /\ phase = "active"
       /\ \A i \in PresentZones : \A f \in Fields :
              self.zone[i][f] = FieldValue(f, persistence.kv[ZoneKey(i, f)])

\* a valid record with a colour list, a brightness and an active text that
\* are not the defaults, loaded
ValidRecordReached ==
    /\ phase = "active"
    /\ op.name = "__init__"
    /\ config.restore_persistence
    /\ ValidRecord
    /\ \E i \in PresentZones :
           /\ persistence.kv[ZoneKey(i, "active")] = << "o", "f", "f" >>
           /\ ~self.zone[i].active
           /\ self.zone[i].colors = << 1, 2, 3, 4, 5, 6, 7, 8, 9 >>
           /\ self.zone[i].brightness = [kind |-> "num", m |-> 505, e |-> 1]
           /\ self.zone[i].speed = 3

\* the value of the baseline text of a key
BaseValue(i, field) ==
    CASE field = "effect" -> BaseEffect(i)
      [] field = "active" -> FALSE
      [] field = "brightness" -> [kind |-> "num", m |-> 505, e |-> 1]
      [] field = "colors" -> << 1, 2, 3, 4, 5, 6, 7, 8, 9 >>
      [] field = "speed" -> 3
      [] field = "wave_dir" -> 2

HasDpi == \E n \in DOMAIN cls.attrs : cls.attrs[n].kind = "dpi"

\* C8: with any of the keys of a record absent, the construction completes,
\* every field whose key is absent holds its default and every field whose
\* key is present holds its value: dpi_y is loaded when dpi_x is absent.
AbsentKeysIndependent ==
    ( /\ phase # "new"
      /\ persistence.section
      /\ \A key \in DOMAIN persistence.kv : persistence.kv[key] = BaseText(key) )
    => /\ phase = "active"
       /\ \A i \in PresentZones : \A f \in Fields :
              self.zone[i][f] = IF Stored(ZoneKey(i, f)) THEN BaseValue(i, f)
                                ELSE DefaultZone[f]
       /\ HasDpi => /\ self.dpi[1] = IF Stored(TopKey("dpi_x")) THEN 800 ELSE 1800
                    /\ self.dpi[2] = IF Stored(TopKey("dpi_y")) THEN 900 ELSE 1800
                    /\ self.poll_rate = IF Stored(TopKey("poll_rate")) THEN 1000 ELSE 500

\* the texts of a key that are not of the type of its field
Unconvertible(key) ==
    CASE Len(key) = 1 /\ key[1] \in {"dpi_x", "dpi_y"} -> { << "f", "a", "s", "t" >> }
      [] Len(key) = 1 /\ key[1] = "poll_rate" -> { << "x" >> }
      [] Len(key) = 2 /\ key[2] = "active" -> { << "m", "a", "y", "b", "e" >>, << >> }
      [] Len(key) = 2 /\ key[2] = "brightness" -> { << "a", "b", "c" >>, << >> }
      [] Len(key) = 2 /\ key[2] = "speed" -> { << "f", "a", "s", "t" >>, << "2", ".", "5" >> }
      [] Len(key) = 2 /\ key[2] = "wave_dir" -> { << "l", "e", "f", "t" >> }
      [] OTHER -> { }

\* C9: a key whose text does not convert to the type of its field lets the
\* construction complete, the field holding its default and the other
\* fields of the zone their values.
ConversionFailureDefaults ==
    \A key \in DOMAIN persistence.kv :
        ( /\ phase # "new"
          /\ persistence.section
          /\ persistence.kv[key] \in Unconvertible(key) )
        => /\ phase = "active"
           /\ Len(key) = 2 /\ self.zone[key[1]].present
                  => \A f \in Fields :
                         self.zone[key[1]][f] = IF f = key[2] THEN DefaultZone[f]
                                                ELSE BaseValue(key[1], f)
           /\ Len(key) = 1 /\ HasDpi
                  => /\ self.dpi[1] = IF key[1] = "dpi_x" THEN 1800 ELSE 800
                     /\ self.dpi[2] = IF key[1] = "dpi_y" THEN 1800 ELSE 900
                     /\ self.poll_rate = IF key[1] = "poll_rate" THEN 500 ELSE 1000

--------------------------------------------------------------------------
(* The persistence setter. *)

\* C10: set_persistence(zone, key, value) with persistence enabled sets
\* that field of that zone to the value, marks the store dirty and changes
\* nothing else; with persistence disabled it changes nothing.
SetPersistenceEffect ==
    [][ op'.name = "set_persistence"
        => LET z == op'.args[1]
               k == op'.args[2]
               v == op'.args[3]
           IN  /\ op'.exc = "none"
               /\ device' = device
               /\ unknown_serial_counter' = unknown_serial_counter
               /\ IF self._disable_persistence
                  THEN self' = self /\ persistence' = persistence
                  ELSE /\ self'.zone[z][k] = v
                       /\ \A i \in Zones : \A f \in DOMAIN self.zone[i] :
                              << i, f >> # << z, k >> => self'.zone[i][f] = self.zone[i][f]
                       /\ \A a \in DOMAIN self : a # "zone" => self'[a] = self[a]
                       /\ DOMAIN self'.zone = DOMAIN self.zone
                       /\ persistence'.changed
                       /\ persistence'.kv = persistence.kv
                       /\ persistence'.section = persistence.section ]_vars

\* a call with persistence disabled that left wave_dir alone, on a zone whose
\* colours an earlier call with persistence enabled has set
SetPersistenceReached ==
    /\ op.name = "set_persistence"
    /\ op.exc = "none"
    /\ self._disable_persistence
    /\ op.args[2] = "wave_dir"
    /\ self.zone[op.args[1]].wave_dir # op.args[3]
    /\ self.zone[op.args[1]].colors = << 9, 8, 7, 6, 5, 4, 3, 2, 1 >>
    /\ persistence.changed


--------------------------------------------------------------------------
(* The colours of a zone. *)

\* C11: in every state reached by a construction and any sequence of
\* restore_effect, suspend_device, resume_device and close, the colours of
\* every zone are nine integers, each in 0..255.
ColorsWellFormed ==
    \A i \in Zones :
        /\ Len(self.zone[i].colors) = 9
        /\ \A k \in 1..Len(self.zone[i].colors) : self.zone[i].colors[k] \in 0..255

\* a device resumed after a load of nine items of which the fifth is 256:
\* the zone holds the default palette
ColorsRepairedReached ==
    /\ phase = "active"
    /\ op.name = "resume_device"
    /\ \E i \in PresentZones :
           /\ Stored(ZoneKey(i, "colors"))
           /\ persistence.kv[ZoneKey(i, "colors")] = << "7", " ", "7", " ", "7", " ", "7", " ", "2", "5", "6", " ", "7", " ", "7", " ", "7", " ", "7" >>
           /\ self.zone[i].colors = DefaultColors

--------------------------------------------------------------------------
(* The serial numbers. *)

\* the device_serial contents that are no serial number
InvalidSerialFiles ==
    { << [err |-> "none", text |-> << >>] >>,
      << [err |-> "none", text |-> << "D", "e", "f", "a", "u", "l", "t", " ", "s", "t", "r", "i", "n", "g" >>] >>,
      << [err |-> "none", text |-> << "p", "m", "1", "2" >>] >>,
      << [err |-> "none", text |-> << "A", "B", " ", "1", "2" >>] >> }

\* UNKNOWN_{VID:04X}{PID:04X}_ of the vendor and product identifiers
UnknownPrefix(vid_pid) ==
    CASE vid_pid = << 5426, 515 >> -> << "U", "N", "K", "N", "O", "W", "N", "_", "1", "5", "3", "2", "0", "2", "0", "3", "_" >>
      [] vid_pid = << 5426, 67 >>  -> << "U", "N", "K", "N", "O", "W", "N", "_", "1", "5", "3", "2", "0", "0", "4", "3", "_" >>

\* {index:04d} of the indices 0, 1, 2, ...
IndexText == << << "0", "0", "0", "0" >>, << "0", "0", "0", "1" >>, << "0", "0", "0", "2" >>, << "0", "0", "0", "3" >>, << "0", "0", "0", "4" >> >>

Unserialled == { k \in 1..Len(devices) : devices[k].serial_file \in InvalidSerialFiles }

\* C12: of the devices constructed one after the other, the k-th of a
\* vendor and product pair that has no valid serial holds
\* UNKNOWN_{VID:04X}{PID:04X}_{k-1:04d}; the pairs are counted separately
\* and no two generated serials are equal.
GeneratedSerialsCounted ==
    /\ \A k \in Unserialled :
           devices[k].serial =
               UnknownPrefix(devices[k].vid_pid)
                   \o IndexText[Cardinality({ j \in Unserialled :
                                    j < k /\ devices[j].vid_pid = devices[k].vid_pid }) + 1]
    /\ \A j, k \in Unserialled : j # k => devices[j].serial # devices[k].serial

\* three devices without a serial, the first and the third of one pair: the
\* third is the second of its pair, the second the first of its own
GeneratedSerialsReached ==
    /\ Len(devices) = 3
    /\ Unserialled = {1, 2, 3}
    /\ devices[1].vid_pid = devices[3].vid_pid
    /\ devices[2].vid_pid # devices[1].vid_pid
    /\ devices[1].serial = << "U", "N", "K", "N", "O", "W", "N", "_", "1", "5", "3", "2", "0", "2", "0", "3", "_", "0", "0", "0", "0" >>
    /\ devices[2].serial = << "U", "N", "K", "N", "O", "W", "N", "_", "1", "5", "3", "2", "0", "0", "4", "3", "_", "0", "0", "0", "0" >>
    /\ devices[3].serial = << "U", "N", "K", "N", "O", "W", "N", "_", "1", "5", "3", "2", "0", "2", "0", "3", "_", "0", "0", "0", "1" >>

\* the threads whose device has no valid serial
Generating == { t \in Threads : resolving[t].text \in { << >>, << "D", "e", "f", "a", "u", "l", "t", " ", "s", "t", "r", "i", "n", "g" >> } }

\* C13: when the get_serial calls of two devices of one pair without a
\* valid serial have both returned, whatever the order of their steps, the
\* two hold different indices and the counter of the pair is 2.
SerialCounterRaceFree ==
    ( /\ Generating = Threads
      /\ \A t \in Threads : resolving[t].pc = "done" )
    => /\ \A s, t \in Threads : s # t => /\ resolving[s].idx # resolving[t].idx
                                          /\ resolving[s].serial # resolving[t].serial
       /\ get_vid_pid \in DOMAIN unknown_serial_counter
       /\ unknown_serial_counter[get_vid_pid] = 2

\* C14: a set_device_mode(mode, param) that returns has written exactly one
\* pair to device_mode: (mode, 0) when mode is 0 or 3 and (0, 0) otherwise,
\* whatever param was.
DeviceModeValidated ==
    (op.name = "set_device_mode" /\ op.exc = "none")
    => LET m == IF op.args[1] \in {0, 3} THEN op.args[1] ELSE 0
       IN  /\ trace.calls = << [name |-> << "d", "e", "v", "i", "c", "e", "_", "m", "o", "d", "e" >>, args |-> << m, 0 >>] >>
           /\ device.mode = << m, 0 >>
           /\ device.mode \in { << 0, 0 >>, << 3, 0 >> }

DeviceModeReached ==
    /\ op.name = "set_device_mode"
    /\ op.exc = "none"
    /\ op.args = << 4, 255 >>
    /\ device.mode = << 0, 0 >>
    /\ trace.calls # << >>

\* the observers in a list
Registered(l) == { l[k] : k \in 1..Len(l) }

Distinct(l) == \A j, k \in 1..Len(l) : j # k => l[j] # l[k]

\* C15: the list of observers starts empty; a register_observer adds its
\* observer at the end unless it is there already, a remove_observer takes
\* its observer out unless it is not there, neither raises, and no other
\* operation changes the list: so the list never holds an observer twice and
\* holds exactly the observers whose last call was a registration.
ObserversTracked ==
    [][ LET l == self._observer_list
            n == self'._observer_list
        IN  /\ op'.name = "__init__" => (op'.exc = "none" => n = << >>)
            /\ op'.name = "register_observer" =>
                   /\ op'.exc = "none"
                   /\ Registered(n) = Registered(l) \cup { op'.args[1] }
                   /\ n = (IF op'.args[1] \in Registered(l) THEN l ELSE Append(l, op'.args[1]))
                   /\ Distinct(n)
            /\ op'.name = "remove_observer" =>
                   /\ op'.exc = "none"
                   /\ Registered(n) = Registered(l) \ { op'.args[1] }
                   /\ op'.args[1] \notin Registered(l) => n = l
                   /\ Distinct(n)
            /\ op'.name \notin { "__init__", "register_observer", "remove_observer" } => n = l
      ]_vars

ObserversReached ==
    /\ op.name = "register_observer"
    /\ op.args = << "o1" >>
    /\ self._observer_list = << "o2", "o3", "o1" >>

\* what notify_observers(msg) is to deliver
Deliveries(msg) ==
    IF self._disable_notifications THEN << >>
    ELSE (IF self._effect_sync_propagate_up /\ self._parent # None
          THEN << [to |-> self._parent, via |-> "notify_parent", msg |-> msg] >>
          ELSE << >>)
         \o [k \in 1..Len(self._observer_list) |->
                [to |-> self._observer_list[k], via |-> "notify", msg |-> msg]]

\* C16: a notify_observers(msg) delivers nothing while notifications are
\* disabled; otherwise it hands msg to the parent first when propagation is
\* on and a parent is registered, and then to every observer once, in the
\* order of registration.
NotifyOrder ==
    op.name = "notify_observers" => /\ op.exc = "none"
                                    /\ trace.delivered = Deliveries(op.args)

NotifyOrderReached ==
    /\ op.name = "notify_observers"
    /\ self._observer_list = << "o3", "o1", "o2" >>
    /\ Len(trace.delivered) = 4
    /\ trace.delivered[1].via = "notify_parent"

\* the component a restore is to hand to the DPI setter
Clamped(v) == IF v > cls.DPI_MAX THEN cls.DPI_MAX ELSE v

\* C17: on a device with a DPI setter, the constructor and every
\* restore_dpi_poll_rate that return have called the setter once, with the
\* two components of self.dpi, neither above DPI_MAX; the constructor's are
\* the stored dpi_x and dpi_y, each replaced by DPI_MAX when it is above it
\* and unchanged otherwise.
DpiClamped ==
    (op.name \in { "__init__", "restore_dpi_poll_rate" } /\ op.exc = "none" /\ HasDpi)
    => /\ CallsOf(trace.calls, { << "s", "e", "t", "D", "P", "I" >> }) = << [name |-> << "s", "e", "t", "D", "P", "I" >>, args |-> self.dpi] >>
       /\ self.dpi[1] <= cls.DPI_MAX
       /\ self.dpi[2] <= cls.DPI_MAX
       /\ device.dpi = self.dpi
       /\ op.name = "__init__" =>
              self.dpi = << Clamped(IntValue[persistence.kv[TopKey("dpi_x")]]),
                            Clamped(IntValue[persistence.kv[TopKey("dpi_y")]]) >>

DpiClampedReached ==
    /\ op.name = "__init__"
    /\ op.exc = "none"
    /\ cls.DPI_MAX = 1600
    /\ persistence.kv[TopKey("dpi_x")] = << "5", "0", "0", "0" >>
    /\ persistence.kv[TopKey("dpi_y")] = << "5", "0", "0", "0" >>
    /\ CallsOf(trace.calls, { << "s", "e", "t", "D", "P", "I" >> }) = << [name |-> << "s", "e", "t", "D", "P", "I" >>, args |-> << 1600, 1600 >>] >>

\* C18: a restore_effect that returns has called, for every present zone
\* whose effect is not spectrum and has no setter, the spectrum setter of
\* that zone when the device has one, the zones with an underscore in
\* their name included.
SpectrumFallbackInvoked ==
    [][ (op'.name = "restore_effect" /\ op'.exc = "none")
        => \A i \in PresentZones :
               ( /\ self.zone[i].effect \notin { spectrum, << >> }
                 /\ ~hasattr(effect_func_name(i, self.zone[i].effect)) )
               => \A n \in SetterOf("effect", i, spectrum) :
                      CallsOf(trace'.calls, {n}) = << [name |-> n, args |-> << >>] >> ]_vars

\* the stored fields other than the effect name are texts the load accepts
ValidButEffect ==
    /\ persistence.section
    /\ \A i \in PresentZones : \A f \in Fields \ { "effect" } :
           Stored(ZoneKey(i, f)) => ValidField(i, f, persistence.kv[ZoneKey(i, f)])
    /\ \A key \in TopKeys : Stored(key) => persistence.kv[key] \in DOMAIN IntValue

\* C19: whatever text the stored effect name is, the empty text included,
\* a restore_effect returns and the constructor that calls it completes.
EffectNameNeverRaises ==
    (op.name \in { "__init__", "restore_effect" } /\ ValidButEffect)
    => /\ op.exc = "none"
       /\ phase = "active"

\* the setter restore_effect resolves for zone i of the zones z: the setter
\* of the zone's effect, or the one of the spectrum fallback; << >> if none
Resolved(z, i) ==
    LET first == effect_func_name(i, z[i].effect)
    IN  IF hasattr(first) \/ z[i].effect = spectrum THEN first ELSE spectrum_func_name(i)

\* the effect the dispatch of zone i sees
Dispatched(z, i) ==
    IF hasattr(effect_func_name(i, z[i].effect)) THEN z[i].effect ELSE spectrum

\* no setter even after the fallback
Unresolved(z, i) == ~hasattr(Resolved(z, i))

\* a setter the dispatch cannot call: a number of parameters it does not
\* know, or one or four parameters and an effect it does not handle
Undispatchable(z, i) ==
    /\ ~Unresolved(z, i)
    /\ LET n == cls.attrs[Resolved(z, i)].arity
           e == Dispatched(z, i)
       IN  \/ n \notin { 0, 1, 3, 4, 6, 7, 9 }
           \/ n = 1 /\ e \notin { << "s", "t", "a", "r", "l", "i", "g", "h", "t", "R", "a", "n", "d", "o", "m" >>, << "w", "a", "v", "e" >>, << "w", "h", "e", "e", "l" >>, << "r", "i", "p", "p", "l", "e", "R", "a", "n", "d", "o", "m", "C", "o", "l", "o", "u", "r" >> }
           \/ n = 4 /\ e \notin { << "s", "t", "a", "r", "l", "i", "g", "h", "t", "S", "i", "n", "g", "l", "e" >>, << "r", "e", "a", "c", "t", "i", "v", "e" >>, << "r", "i", "p", "p", "l", "e" >> }

\* left to the ripple manager: no call and no failure
Deferred(z, i) ==
    /\ ~Unresolved(z, i)
    /\ LET n == cls.attrs[Resolved(z, i)].arity
       IN  \/ n = 1 /\ Dispatched(z, i) = << "r", "i", "p", "p", "l", "e", "R", "a", "n", "d", "o", "m", "C", "o", "l", "o", "u", "r" >>
           \/ n = 4 /\ Dispatched(z, i) = << "r", "i", "p", "p", "l", "e" >>

\* the calls of a restore_effect over the zones l: none for a zone whose
\* dispatch fails, one for every other zone, in the order of l
RECURSIVE ExpectedCalls(_, _)
ExpectedCalls(z, l) ==
    IF l = << >> THEN << >>
    ELSE LET i == Head(l)
         IN  (IF Unresolved(z, i) \/ Undispatchable(z, i) \/ Deferred(z, i)
              THEN << >>
              ELSE << [name |-> Resolved(z, i),
                       args |-> DocumentedArgs(cls.attrs[Resolved(z, i)].arity,
                                               Dispatched(z, i), z[i])] >>)
             \o ExpectedCalls(z, Tail(l))

PresentList(z) == SelectSeq(ZONES, LAMBDA i : z[i].present)

\* C20: a restore_effect over zones with non-empty effect names returns;
\* a zone whose dispatch fails (no setter even after the fallback, a setter
\* with a number of parameters outside 0, 1, 3, 4, 6, 7, 9, or a setter of one
\* or four parameters for an effect the dispatch does not handle) gets no
\* call, and every other present zone gets its call, in ZONES order; one
\* error is logged for each zone whose setter could not be dispatched.
FailedDispatchSkipsZone ==
    [][ ( /\ op'.name = "restore_effect"
          /\ \A i \in PresentZones : self.zone[i].effect # << >> )
        => /\ op'.exc = "none"
           /\ trace'.calls = ExpectedCalls(self.zone, PresentList(self.zone))
           /\ Len(trace'.errors)
                  = Cardinality({ i \in PresentZones : Undispatchable(self.zone, i) }) ]_vars

FailedDispatchReached ==
    /\ op.name = "restore_effect"
    /\ op.exc = "none"
    /\ self.zone["logo"].present /\ self.zone["scroll"].present
    /\ self.zone["logo"].effect = << "b", "r", "i", "g", "h", "t", "n", "e", "s", "s" >>
    /\ Undispatchable(self.zone, "logo")
    /\ trace.errors # << >>
    /\ trace.calls = << [name |-> << "s", "e", "t", "S", "c", "r", "o", "l", "l", "B", "r", "e", "a", "t", "h", "D", "u", "a", "l" >>, args |-> << 1, 2, 3, 4, 5, 6 >>] >>

\* a restore_effect that met a setter of four parameters for an effect the
\* dispatch does not handle
FourParametersReached ==
    /\ op.name = "restore_effect"
    /\ op.exc = "none"
    /\ self.zone["backlight"].effect = << "l", "e", "d", "R", "o", "w" >>
    /\ trace.errors = << "Effect requires 4 arguments" >>
    /\ trace.calls = << >>

\* C21: a restore_effect calls no setter for a zone whose effect is
\* rippleRandomColour with a setter of one parameter, or ripple with a setter
\* of four; it logs no error for the zone and leaves the zone's effect name
\* and every other field of the zone as they were.
RippleLeftToManager ==
    [][ ( /\ op'.name = "restore_effect"
          /\ \A i \in PresentZones : self.zone[i].effect # << >> )
        => \A i \in PresentZones :
               Deferred(self.zone, i)
               => /\ op'.exc = "none"
                  /\ \A n \in DOMAIN cls.attrs :
                         cls.attrs[n].zone = i => CallsOf(trace'.calls, {n}) = << >>
                  /\ Len(trace'.errors)
                         = Cardinality({ j \in PresentZones \ {i} : Undispatchable(self.zone, j) })
                  /\ self'.zone[i] = self.zone[i] ]_vars

RippleReached ==
    /\ op.name = "restore_effect"
    /\ op.exc = "none"
    /\ self.zone["backlight"].present
    /\ self.zone["backlight"].effect = << "r", "i", "p", "p", "l", "e" >>
    /\ hasattr(<< "s", "e", "t", "R", "i", "p", "p", "l", "e" >>)
    /\ trace.calls = << >>
    /\ trace.errors = << >>

\* a multi-word identifier in camel case: the first letter capitalised, each
\* underscore removed and the letter after it capitalised
RECURSIVE CamelFrom(_, _)
CamelFrom(s, k) ==
    IF k > Len(s) THEN << >>
    ELSE IF s[k] = "_" /\ k < Len(s)
    THEN << upper(s[k + 1]) >> \o CamelFrom(s, k + 2)
    ELSE << s[k] >> \o CamelFrom(s, k + 1)

CamelCase(s) == << upper(s[1]) >> \o CamelFrom(s, 2)

\* C22: the name restore_effect looks up for a zone and an effect is "set",
\* then nothing for backlight and the zone identifier in camel case for any
\* other zone, then the effect name in camel case.
SetterNameComposed ==
    \A i \in Zones : \A j \in PresentZones :
        self.zone[j].effect # << >>
        => effect_func_name(i, self.zone[j].effect)
               = << "s", "e", "t" >> \o (IF i = "backlight" THEN << >> ELSE CamelCase(ZoneChars(i)))
                        \o CamelCase(self.zone[j].effect)

\* the serial a device_serial content reports: what its first read that
\* succeeds holds, without the white space around it
Reported(f) ==
    CASE f = << [err |-> "none", text |-> << "P", "M", "1", "2", "3", "4" >>] >> -> << "P", "M", "1", "2", "3", "4" >>
      [] f = << [err |-> "none", text |-> << >>] >> -> << >>
      [] f = << [err |-> "none", text |-> << "D", "e", "f", "a", "u", "l", "t", " ", "s", "t", "r", "i", "n", "g" >>] >> -> << "D", "e", "f", "a", "u", "l", "t", " ", "s", "t", "r", "i", "n", "g" >>
      [] f = << [err |-> "none", text |-> << "p", "m", "1", "2" >>] >> -> << "p", "m", "1", "2" >>
      [] f = << [err |-> "none", text |-> << "A", "B", " ", "1", "2" >>] >> -> << "A", "B", " ", "1", "2" >>
      [] f = << [err |-> "none", text |-> << "0", "0", "4", "2" >>] >> -> << "0", "0", "4", "2" >>
      [] f = << [err |-> "OSError", text |-> << >>], [err |-> "none", text |-> << "X", "X", "9", "9", " " >>] >> -> << "X", "X", "9", "9" >>

SerialAlphabet ==
    { "0", "1", "2", "3", "4", "5", "6", "7", "8", "9",
      "A", "B", "C", "D", "E", "F", "G", "H", "I", "J", "K", "L", "M",
      "N", "O", "P", "Q", "R", "S", "T", "U", "V", "W", "X", "Y", "Z" }

WellFormed(s) == s # << >> /\ \A k \in 1..Len(s) : s[k] \in SerialAlphabet

Generated(k) == ~WellFormed(Reported(devices[k].serial_file))

\* C23: a device holds the serial its hardware reports exactly when that
\* serial is not empty and made of digits and upper-case letters only, and
\* such a device leaves the counter alone; every other device holds a
\* generated UNKNOWN_ serial and has counted once in the counter of its pair.
SerialValidated ==
    /\ \A k \in 1..Len(devices) :
           /\ devices[k].serial = Reported(devices[k].serial_file) <=> ~Generated(k)
           /\ Generated(k) => SubSeq(devices[k].serial, 1, 8) = << "U", "N", "K", "N", "O", "W", "N", "_" >>
    /\ \A p \in { << c.USB_VID, c.USB_PID >> : c \in SerialClasses } :
           (IF p \in DOMAIN unknown_serial_counter THEN unknown_serial_counter[p] ELSE 0)
               = Cardinality({ k \in 1..Len(devices) : devices[k].vid_pid = p /\ Generated(k) })

SerialValidatedReached ==
    /\ Len(devices) = 3
    /\ devices[1].serial_file = << [err |-> "none", text |-> << "A", "B", " ", "1", "2" >>] >>
    /\ devices[1].serial = << "U", "N", "K", "N", "O", "W", "N", "_", "1", "5", "3", "2", "0", "2", "0", "3", "_", "0", "0", "0", "0" >>
    /\ devices[2].serial_file = << [err |-> "none", text |-> << "0", "0", "4", "2" >>] >>
    /\ devices[2].serial = << "0", "0", "4", "2" >>
    /\ devices[2].vid_pid = devices[1].vid_pid
    /\ devices[3].serial_file = << [err |-> "none", text |-> << "p", "m", "1", "2" >>] >>
    /\ devices[3].serial = << "U", "N", "K", "N", "O", "W", "N", "_", "1", "5", "3", "2", "0", "2", "0", "3", "_", "0", "0", "0", "1" >>
    /\ unknown_serial_counter[devices[1].vid_pid] = 2

\* the k-th read of the device_serial content f
Attempt(f, k) == f[IF k <= Len(f) THEN k ELSE Len(f)]

\* a read that yields a serial
Yields(o) == o.err = "none" /\ o.text \notin { << >>, << " ", " " >> }

\* the first of the five attempts that yields a serial, 0 if none does
FirstYield(f) ==
    IF \E k \in 1..5 : Yields(Attempt(f, k))
    THEN CHOOSE k \in 1..5 : /\ Yields(Attempt(f, k))
                             /\ \A j \in 1..(k - 1) : ~Yields(Attempt(f, j))
    ELSE 0

\* C24: the constructor reads device_serial until the first attempt that
\* yields a serial and never more than 5 times; when all five attempts fail
\* or come back empty it completes with a generated serial.
SerialReadBounded ==
    phase # "new"
    => /\ phase = "active" /\ op.exc = "none"
       /\ trace.reads <= 5
       /\ trace.reads = (IF FirstYield(device.serial_file) = 0 THEN 5
                         ELSE FirstYield(device.serial_file))
       /\ IF FirstYield(device.serial_file) = 0
          THEN SubSeq(self._serial, 1, 8) = << "U", "N", "K", "N", "O", "W", "N", "_" >>
          ELSE self._serial = << "P", "M", "1", "2", "3", "4" >>

SerialReadExhausted ==
    /\ phase = "active"
    /\ Len(device.serial_file) = 6
    /\ device.serial_file[6].text = << "P", "M", "1", "2", "3", "4" >>
    /\ device.serial_file[1].err = "PermissionError"
    /\ trace.reads = 5
    /\ SubSeq(self._serial, 1, 8) = << "U", "N", "K", "N", "O", "W", "N", "_" >>

\* C25: a get_device_mode on a device whose device_mode file is there
\* returns a value, not an exception, also when every read of the file
\* within the retries comes back empty.
DeviceModeReadDegrades ==
    (op.name = "get_device_mode" /\ device.exists) => op.exc = "none"

\* C26: a notify(msg) hands msg to every observer of the device once, in
\* the order of registration, and to nobody else, whatever the flags and the
\* parent are; it changes nothing of the device and does not raise.
NotifyRebroadcasts ==
    [][ op'.name = "notify"
        => /\ op'.exc = "none"
           /\ trace'.delivered = [k \in 1..Len(self._observer_list) |->
                                     [to |-> self._observer_list[k], via |-> "notify",
                                      msg |-> op'.args]]
           /\ self' = self
           /\ persistence' = persistence
           /\ device' = device ]_vars

NotifyRebroadcastReached ==
    /\ op.name = "notify"
    /\ self._disable_notifications
    /\ self._effect_sync_propagate_up
    /\ self._parent # None
    /\ self._observer_list = << "o2", "o1", "o3" >>
    /\ Len(trace.delivered) = 3

\* C27: whatever the devices have registered with one another, a device
\* with itself or two devices with each other included, a broadcast comes
\* to its end by itself: the notify calls do not nest until the interpreter
\* stops them with a RecursionError.
BroadcastTerminates == fanout.exc = "none"

\* C28: when a broadcast to observers that are not devices has come to its
\* end, every observer that was registered when it began has received the
\* message once, also when one of them removed itself in its notify.
BroadcastSurvivesRemoval ==
    ( /\ fanout.root # "none"
      /\ fanout.stack = << >>
      /\ fanout.exc = "none"
      /\ \A k \in 1..Len(fanout.began) : fanout.began[k] \in FanLeaves )
    => \A k \in 1..Len(fanout.began) : fanout.received[fanout.began[k]] = 1

\* the step of the start-up a call belongs to: the driver mode, the DPI and
\* poll rate restore, the brightness restore, the effect restore
StartupRank(c) ==
    IF c.name = << "d", "e", "v", "i", "c", "e", "_", "m", "o", "d", "e" >> THEN 0
    ELSE CASE cls.attrs[c.name].kind \in { "dpi", "poll_rate" } -> 1
           [] cls.attrs[c.name].kind \in { "active", "brightness" } -> 2
           [] cls.attrs[c.name].kind = "effect" -> 3

\* how often the constructor is to apply restore_effect
EffectRestores ==
    IF ~config.restore_persistence THEN 0
    ELSE IF config.persistence_dual_boot_quirk THEN 2 ELSE 1

\* the zones as the constructor loaded them: the effect names are the
\* stored ones, whatever a restore_effect made of them since
LoadedZones ==
    [i \in Zones |->
        IF persistence.section /\ Stored(ZoneKey(i, "effect"))
        THEN [self.zone[i] EXCEPT !.effect = persistence.kv[ZoneKey(i, "effect")]]
        ELSE self.zone[i]]

\* the calls of n restore_effect in a row, the first on the loaded zones
StartupEffectCalls(n) ==
    CASE n = 0 -> << >>
      [] n = 1 -> ExpectedCalls(LoadedZones, PresentList(self.zone))
      [] n = 2 -> ExpectedCalls(LoadedZones, PresentList(self.zone))
                      \o ExpectedCalls(self.zone, PresentList(self.zone))

\* C29: the calls of a constructor that completes are those of the DPI and
\* poll rate restore (one per setter), then those of the brightness restore
\* (one per setter), then those of restore_effect 0 times when
\* restore_persistence is off, once when it is on and the dual boot quirk
\* is off, twice when both are on.
StartupRestoreOrder ==
    (op.name = "__init__" /\ op.exc = "none")
    => /\ \A j, k \in 1..Len(trace.calls) :
              j < k => StartupRank(trace.calls[j]) <= StartupRank(trace.calls[k])
       /\ \A n \in DOMAIN cls.attrs :
              cls.attrs[n].kind \in { "dpi", "poll_rate" } => Len(CallsOf(trace.calls, {n})) = 1
       /\ \A i \in PresentZones :
              \A n \in SetterOf("brightness", i, << >>) \cup SetterOf("active", i, << >>) :
                  Len(CallsOf(trace.calls, {n})) <= 1
       /\ Len(SelectSeq(trace.calls, LAMBDA c : StartupRank(c) = 2)) =
              Cardinality({ n \in DOMAIN cls.attrs :
                              /\ cls.attrs[n].kind \in { "active", "brightness" }
                              /\ cls.attrs[n].zone \in PresentZones
                              /\ \/ cls.attrs[n].zone = "backlight" /\ cls.attrs[n].kind = "brightness"
                                 \/ ZoneMethod(cls.attrs[n].zone, "_" \o cls.attrs[n].kind)
                                        \in cls.METHODS })
       /\ SelectSeq(trace.calls, LAMBDA c : StartupRank(c) = 3)
              = StartupEffectCalls(EffectRestores)

StartupTwiceReached ==
    /\ op.name = "__init__"
    /\ op.exc = "none"
    /\ config.restore_persistence /\ config.persistence_dual_boot_quirk
    /\ HasDpi
    /\ Len(ExpectedCalls(LoadedZones, PresentList(self.zone))) = 2
    /\ Len(SelectSeq(trace.calls, LAMBDA c : StartupRank(c) = 3)) = 4
    /\ Len(SelectSeq(trace.calls, LAMBDA c : StartupRank(c) = 2)) > 0

\* C30: the first close() of a device in driver mode whose device_mode
\* file is gone does not raise: it writes no device mode, calls the close
\* hook, empties the list of observers and marks the device closed; a
\* close() of a closed device does nothing.
CloseToleratesRemoval ==
    [][ op'.name = "close"
        => /\ (cls.DRIVER_MODE /\ ~device.exists /\ ~self._is_closed)
                  => /\ op'.exc = "none"
                     /\ trace'.calls = << [name |-> << "_", "c", "l", "o", "s", "e" >>, args |-> << >>] >>
                     /\ self'._observer_list = << >>
                     /\ self'._is_closed
                     /\ device' = device
           /\ self._is_closed
                  => /\ op'.exc = "none"
                     /\ trace'.calls = << >>
                     /\ self' = self
                     /\ device' = device ]_vars

CloseAfterRemovalReached ==
    /\ op.name = "close"
    /\ op.exc = "none"
    /\ cls.DRIVER_MODE
    /\ ~device.exists
    /\ self._is_closed
    /\ self._observer_list = << >>
    /\ trace.calls = << [name |-> << "_", "c", "l", "o", "s", "e" >>, args |-> << >>] >>

--------------------------------------------------------------------------
(* Suspend and resume: the order of the calls and the two disable flags. *)

SuspendObservers == { "o1" }

InitSuspend ==
    /\ cls \in DeviceClasses
    /\ config = Flags(FALSE, FALSE)
    /\ persistence \in OpStores(cls)
    /\ Unconstructed

NextSuspend ==
    \/ Construct
    \/ SuspendDevice
    \/ ResumeDevice
    \/ SetDisableNotify
    \/ SetDisablePersistence
    \/ RegisterObserver(SuspendObservers)
    \/ Unplug

SpecSuspend == InitSuspend /\ [][NextSuspend]_vars

IsModeWrite(c) == c.name = << "d", "e", "v", "i", "c", "e", "_", "m", "o", "d", "e" >>

IsResumeHook(c) == c.name = << "_", "r", "e", "s", "u", "m", "e", "_", "d", "e", "v", "i", "c", "e" >>

IsLevelSetter(c) ==
    /\ c.name \in DOMAIN cls.attrs
    /\ cls.attrs[c.name].kind \in { "brightness", "active" }

\* C31: the calls of a resume_device are, in this order, the write of
\* device mode (3, 0) when the class has DRIVER_MODE, the brightness and
\* active setters, the resume hook; a class without DRIVER_MODE writes no
\* device mode.
ResumeOrder ==
    [][ op'.name = "resume_device"
        => LET calls == trace'.calls
               n     == Len(calls)
           IN  /\ \A k \in 1..n :
                      /\ IsModeWrite(calls[k]) \/ IsLevelSetter(calls[k]) \/ IsResumeHook(calls[k])
                      /\ IsModeWrite(calls[k]) => (k = 1 /\ calls[k].args = << 3, 0 >>)
                      /\ IsResumeHook(calls[k]) => k = n
               /\ ~cls.DRIVER_MODE => \A k \in 1..n : ~IsModeWrite(calls[k])
               /\ (cls.DRIVER_MODE /\ n > 0) => IsModeWrite(calls[1])
               /\ op'.exc = "none" => (n > 0 /\ IsResumeHook(calls[n]))
               /\ (op'.exc = "none" /\ cls.DRIVER_MODE) => device'.mode = << 3, 0 >> ]_vars

ResumeOrderReached ==
    /\ op.name = "resume_device"
    /\ op.exc = "none"
    /\ cls.DRIVER_MODE
    /\ Len(trace.calls) >= 3
    /\ IsModeWrite(trace.calls[1])
    /\ IsLevelSetter(trace.calls[2])
    /\ IsResumeHook(trace.calls[Len(trace.calls)])

--------------------------------------------------------------------------
(* The stored poll rate: the mouse with the default POLL_RATES next to a
   mouse whose class lists its own. *)

HyperMouse ==
    [Mouse EXCEPT !.name = "HyperMouse",
                  !.POLL_RATES = << 125, 500, 1000, 2000, 4000, 8000 >>]

StoredPollValue ==
    (<< "-", "5" >> :> 0 - 5) @@ (<< "0" >> :> 0) @@ (<< "1", "2", "5" >> :> 125) @@ (<< "5", "0", "0" >> :> 500) @@
    (<< "6", "0", "0" >> :> 600) @@ (<< "7", "5", "0" >> :> 750) @@ (<< "1", "0", "0", "0" >> :> 1000) @@ (<< "3", "0", "0", "0" >> :> 3000) @@
    (<< "4", "0", "0", "0" >> :> 4000) @@ (<< "8", "0", "0", "0" >> :> 8000) @@ (<< "2", "0", "0", "0", "0" >> :> 20000)

PollStores(c) ==
    { Store(TRUE, [key \in ClassKeys(c) |->
                      IF key = TopKey("poll_rate") THEN t ELSE BaseText(key)])
        : t \in DOMAIN StoredPollValue }

InitPoll ==
    /\ cls \in { Mouse, HyperMouse, Keyboard }
    /\ config = Flags(FALSE, FALSE)
    /\ persistence \in PollStores(cls)
    /\ Unconstructed

NextPoll == Construct \/ RestoreDpiPollRate \/ SuspendDevice \/ Unplug

SpecPoll == InitPoll /\ [][NextPoll]_vars

HasPollRate == \E n \in DOMAIN cls.attrs : cls.attrs[n].kind = "poll_rate"

Rates(l) == { l[k] : k \in 1..Len(l) }

\* C32: a construction or a restore_dpi_poll_rate that returns on a device
\* with a poll rate setter has called the setter once, with the poll rate
\* it leaves in memory, a member of POLL_RATES: the rate it began with
\* when that is a member, otherwise a member no other member is nearer to it.
PollRateConstrained ==
    [][ (op'.name \in { "__init__", "restore_dpi_poll_rate" } /\ op'.exc = "none" /\ HasPollRate)
        => LET p == IF op'.name = "__init__"
                    THEN StoredPollValue[persistence.kv[TopKey("poll_rate")]]
                    ELSE self.poll_rate
               r == self'.poll_rate
               R == Rates(self'.POLL_RATES)
           IN  /\ SelectSeq(trace'.calls, LAMBDA c : c.name = << "s", "e", "t", "P", "o", "l", "l", "R", "a", "t", "e" >>)
                      = << [name |-> << "s", "e", "t", "P", "o", "l", "l", "R", "a", "t", "e" >>, args |-> << r >>] >>
               /\ r \in R
               /\ p \in R => r = p
               /\ \A x \in R : abs(r - p) <= abs(x - p)
               /\ R = Rates(IF cls.POLL_RATES = << >> THEN << 125, 500, 1000 >>
                            ELSE cls.POLL_RATES) ]_vars

PollRateReplacedReached ==
    /\ op.name = "__init__"
    /\ op.exc = "none"
    /\ cls.name = "HyperMouse"
    /\ persistence.kv[TopKey("poll_rate")] = << "3", "0", "0", "0" >>
    /\ self.poll_rate = 2000
    /\ \E k \in 1..Len(trace.calls) :
           trace.calls[k] = [name |-> << "s", "e", "t", "P", "o", "l", "l", "R", "a", "t", "e" >>, args |-> << 2000 >>]

--------------------------------------------------------------------------
(* The ranges of the zone fields. *)

RECURSIVE pow10(_)
pow10(e) == IF e = 0 THEN 1 ELSE 10 * pow10(e - 1)

\* 0 <= b <= 100 for the number m / 10^e
BrightnessInRange(b) ==
    /\ b.kind = "num"
    /\ 0 <= b.m
    /\ b.m <= 100 * pow10(b.e)

\* C33: after a construction from any persisted record and any operations,
\* the brightness of every present zone is within 0..100 and its wave_dir
\* is a member of WAVE_DIRS.
ZoneRangesKept ==
    phase = "active"
    => \A i \in PresentZones :
           /\ BrightnessInRange(self.zone[i].brightness)
           /\ self.zone[i].wave_dir \in WAVE_DIRS

--------------------------------------------------------------------------
(* The cached serial: get_serial after the construction, with a
   device_serial file whose content changes under the daemon. *)

GetSerial ==
    /\ phase = "active"
    /\ LET w == get_serial(World)
       IN  Commit(w, "get_serial", << w.self._serial >>)
    /\ UNCHANGED phase /\ Fixed

RewriteSerial ==
    /\ phase = "active"
    /\ \E f \in SerialFiles :
           /\ f # device.serial_file
           /\ Commit([World EXCEPT !.device.serial_file = f], "rewrite_serial", << >>)
    /\ UNCHANGED phase /\ Fixed

InitCache ==
    /\ cls \in DeviceClasses
    /\ config = Flags(FALSE, FALSE)
    /\ persistence = NoSectionStore
    /\ phase = "new"
    /\ self = NewSelf
    /\ device \in { [NewDevice(<< >>) EXCEPT !.serial_file = f] : f \in SerialFiles }
    /\ unknown_serial_counter = << >>
    /\ trace = EmptyTrace
    /\ op = [name |-> "none", args |-> << >>, exc |-> "none"]
    /\ devices = << >>
    /\ resolving = << >>
    /\ fanout = << >>

NextCache == Construct \/ GetSerial \/ RewriteSerial

SpecCache == InitCache /\ [][NextCache]_vars

\* C34: a get_serial after the construction returns the serial the
\* construction resolved, reads the device_serial file no more and leaves
\* the counter of generated serials alone, so that one device advances the
\* counter at most once.
SerialCached ==
    [][ /\ op'.name = "get_serial"
            => /\ op'.exc = "none"
               /\ op'.args = << devices[1].serial >>
               /\ self' = self
               /\ trace'.reads = 0
               /\ unknown_serial_counter' = unknown_serial_counter
        /\ counter_get(unknown_serial_counter') <= 1
        /\ DOMAIN unknown_serial_counter' \subseteq { get_vid_pid } ]_vars

SerialCachedReached ==
    /\ op.name = "get_serial"
    /\ op.args = << unknown_serial(0) >>
    /\ device.serial_file = << [err |-> "none", text |-> << "P", "M", "1", "2", "3", "4" >>] >>
    /\ counter_get(unknown_serial_counter) = 1

\* C35: a suspend_device or resume_device that returns leaves the
\* disable_notify and the disable_persistence flag False, whatever they
\* were when it was called.
FlagsClearedOnReturn ==
    [][ (op'.name \in { "suspend_device", "resume_device" } /\ op'.exc = "none")
        => /\ ~self'._disable_notifications
           /\ ~self'._disable_persistence ]_vars

FlagsClearedReached ==
    /\ op.name \in { "suspend_device", "resume_device" }
    /\ op.exc = "none"
    /\ op.args[2] /\ op.args[3]
    /\ ~self._disable_notifications
    /\ ~self._disable_persistence
    /\ trace.calls # << >>

--------------------------------------------------------------------------
(* Suspend and resume that raise: a setter or a hook of the subclass that
   fails, a device_mode file that is gone.  The flags have no writer but
   suspend_device and resume_device here. *)

Faults == { "none", "setter", "hook" }

Fault ==
    /\ phase = "active"
    /\ \E f \in Faults :
           /\ f # device.fault
           /\ Commit([World EXCEPT !.device.fault = f], "fault", << f >>)
    /\ UNCHANGED phase /\ Fixed

FaultObservers == { "o1" }

FaultInputs == { << "brightness", Num(30) >>, << "effect", << "w", "a", "v", "e" >> >> }

InitFault ==
    /\ cls \in DeviceClasses
    /\ config = Flags(FALSE, FALSE)
    /\ persistence = BaseStore(cls)
    /\ Unconstructed

NextFault ==
    \/ Construct
    \/ SuspendDevice
    \/ ResumeDevice
    \/ Fault
    \/ Unplug
    \/ SetPersistence(FaultInputs)
    \/ NotifyObservers
    \/ RegisterObserver(FaultObservers)

SpecFault == InitFault /\ [][NextFault]_vars

Muted(s) == s._disable_notifications /\ s._disable_persistence

\* C36: a suspend_device or resume_device that raises (from a setter, from
\* the device mode write or from the hook) leaves both disable flags True,
\* and from then on every set_persistence and every notify_observers does
\* nothing, until a suspend_device or resume_device returns.
FailedSuspendMutes ==
    [][ /\ (op'.name \in { "suspend_device", "resume_device" } /\ op'.exc # "none")
            => Muted(self')
        /\ (Muted(self) /\ op'.name \notin { "suspend_device", "resume_device" })
            => /\ Muted(self')
               /\ op'.name = "set_persistence"
                      => /\ self' = self
                         /\ persistence' = persistence
                         /\ op'.exc = "none"
               /\ op'.name = "notify_observers"
                      => /\ self' = self
                         /\ trace'.delivered = << >>
                         /\ op'.exc = "none"
        /\ (~Muted(self) /\ op'.name \notin { "suspend_device", "resume_device", "__init__" })
            => ~Muted(self') ]_vars

FailedSuspendMutesReached ==
    /\ op.name = "notify_observers"
    /\ Muted(self)
    /\ self._observer_list # << >>
    /\ trace.delivered = << >>
    /\ device.fault = "none"
    /\ device.exists
====
